---- MODULE Spec2Model ----
(***************************************************************************)
(* A model of ts-ast-utils: query and type-inference helpers over the      *)
(* TypeScript syntax tree.                                                 *)
(*                                                                         *)
(* Strings whose characters matter (type strings, which the code sorts,    *)
(* joins and searches) are sequences of UTF-16 code units, so that         *)
(* Array.prototype.sort, Array.prototype.join and String.prototype         *)
(* .includes are computed as JavaScript computes them.  Syntax nodes are   *)
(* records with a kind, a text (name.text / literal.text / getText()) and  *)
(* the children the code reads.                                            *)
(***************************************************************************)
EXTENDS Integers, Sequences, FiniteSets, TLC

VARIABLES
    typeNode, serialized, tyPc,                      \* serializeTypeNode
    poFile, poHasFile, poNode, poTailCalls, poDepth, poParams, poPc,  \* parseObjectType
    tyHandle, typeString, gtPc,                      \* getTypeString
    exprNode, inferred, inPc,                        \* inferTypeFromExpression
    sourceFile, toVisit, hasNamedExports, hasDefaultExport, namedExports,
    exportInfo, exPc,                                \* analyzeExports
    fnRoot, fnPredicate, fnStack, results, result, predicateCalls,
    fnPc,                                            \* findNodes, findFirstNode
    pgFile, handlers, pgStack, pgMembers, pgHandler, pgResults, invocations,
    warnings, pgPc,                                  \* parseGeneratedInterfaces
    callee, callArgs, callResult, callPc             \* one call of a pure helper

tyVars == <<typeNode, serialized, tyPc>>
poVars == <<poFile, poHasFile, poNode, poTailCalls, poDepth, poParams, poPc>>
gtVars == <<tyHandle, typeString, gtPc>>
inVars == <<exprNode, inferred, inPc>>
exVars == <<sourceFile, toVisit, hasNamedExports, hasDefaultExport, namedExports,
            exportInfo, exPc>>
fnVars == <<fnRoot, fnPredicate, fnStack, results, result, predicateCalls, fnPc>>
pgVars == <<pgFile, handlers, pgStack, pgMembers, pgHandler, pgResults, invocations,
            warnings, pgPc>>
callVars == <<callee, callArgs, callResult, callPc>>
vars == <<tyVars, poVars, gtVars, inVars, exVars, fnVars, pgVars, callVars>>

\* what a step of one entry point leaves alone: the other entry points
notTy == <<poVars, gtVars, inVars, exVars, fnVars, pgVars, callVars>>
notPo == <<tyVars, gtVars, inVars, exVars, fnVars, pgVars, callVars>>
notGt == <<tyVars, poVars, inVars, exVars, fnVars, pgVars, callVars>>
notIn == <<tyVars, poVars, gtVars, exVars, fnVars, pgVars, callVars>>
notEx == <<tyVars, poVars, gtVars, inVars, fnVars, pgVars, callVars>>
notFn == <<tyVars, poVars, gtVars, inVars, exVars, pgVars, callVars>>
notPg == <<tyVars, poVars, gtVars, inVars, exVars, fnVars, callVars>>
notCall == <<tyVars, poVars, gtVars, inVars, exVars, fnVars, pgVars>>

-----------------------------------------------------------------------------
(* Bounds of the model. *)

\* longest union / intersection member list drawn as an input
MaxMembers == 3
\* longest array literal drawn as an input
MaxElements == 3
\* most name fragments an identifier drawn as an input is made of
MaxFragments == 2

-----------------------------------------------------------------------------
(* String literals of the source, as UTF-16 code units. *)

\* the string literals of the source: Text.bar is " | ", Text.amp " & ", Text.brackets "[]",
\* Text.semi "; ", Text.colon ": ", Text.comma ", ", Text.lbrace "{ ", Text.rbrace " }",
\* Text.emptyObject "{}", Text.lparen "(", Text.rparenBrackets ")[]"; the others spell
\* their own name; Text.placeholder is TEMPLATE_STRING_PLACEHOLDER, "${string}"
Text ==
    [string |-> <<115, 116, 114, 105, 110, 103>>,
     number |-> <<110, 117, 109, 98, 101, 114>>,
     boolean |-> <<98, 111, 111, 108, 101, 97, 110>>,
     null |-> <<110, 117, 108, 108>>,
     undefined |-> <<117, 110, 100, 101, 102, 105, 110, 101, 100>>,
     void |-> <<118, 111, 105, 100>>,
     any |-> <<97, 110, 121>>,
     unknown |-> <<117, 110, 107, 110, 111, 119, 110>>,
     never |-> <<110, 101, 118, 101, 114>>,
     true |-> <<116, 114, 117, 101>>,
     false |-> <<102, 97, 108, 115, 101>>,
     Date |-> <<68, 97, 116, 101>>,
     object |-> <<111, 98, 106, 101, 99, 116>>,
     bar |-> <<32, 124, 32>>,
     amp |-> <<32, 38, 32>>,
     brackets |-> <<91, 93>>,
     semi |-> <<59, 32>>,
     colon |-> <<58, 32>>,
     comma |-> <<44, 32>>,
     quote |-> <<34>>,
     lbrace |-> <<123, 32>>,
     rbrace |-> <<32, 125>>,
     emptyObject |-> <<123, 125>>,
     lt |-> <<60>>,
     gt |-> <<62>>,
     lparen |-> <<40>>,
     rparenBrackets |-> <<41, 91, 93>>,
     Id |-> <<73, 100>>,
     Name |-> <<78, 97, 109, 101>>,
     Key |-> <<75, 101, 121>>,
     enabled |-> <<101, 110, 97, 98, 108, 101, 100>>,
     is |-> <<105, 115>>,
     has |-> <<104, 97, 115>>,
     filter |-> <<102, 105, 108, 116, 101, 114>>,
     slice |-> <<115, 108, 105, 99, 101>>,
     toString |-> <<116, 111, 83, 116, 114, 105, 110, 103>>,
     substr |-> <<115, 117, 98, 115, 116, 114>>,
     get |-> <<103, 101, 116>>,
     now |-> <<110, 111, 119>>,
     random |-> <<114, 97, 110, 100, 111, 109>>,
     parseInt |-> <<112, 97, 114, 115, 101, 73, 110, 116>>,
     parseFloat |-> <<112, 97, 114, 115, 101, 70, 108, 111, 97, 116>>,
     Number |-> <<78, 117, 109, 98, 101, 114>>,
     String |-> <<83, 116, 114, 105, 110, 103>>,
     Boolean |-> <<66, 111, 111, 108, 101, 97, 110>>,
     const |-> <<99, 111, 110, 115, 116>>,
     placeholder |-> <<36, 123, 115, 116, 114, 105, 110, 103, 125>>,
     Promise |-> <<80, 114, 111, 109, 105, 115, 101>>]

\* the names the inputs use: Names.qualified is N.a, Names.proto is __proto__
Names ==
    [a |-> <<97>>,
     b |-> <<98>>,
     ab |-> <<97, 98>>,
     x |-> <<120>>,
     qualified |-> <<78, 46, 97>>,
     f |-> <<102>>,
     g |-> <<103>>,
     C |-> <<67>>,
     X |-> <<88>>,
     T |-> <<84>>,
     Config |-> <<67, 111, 110, 102, 105, 103>>,
     Other |-> <<79, 116, 104, 101, 114>>,
     proto |-> <<95, 95, 112, 114, 111, 116, 111, 95, 95>>,
     KEY |-> <<75, 69, 89>>]

-----------------------------------------------------------------------------
(* JavaScript library operations the code calls. *)

\* a < b in the order of Array.prototype.sort without a comparator:
\* code unit by code unit, a proper prefix first
RECURSIVE StrLess(_, _)
StrLess(a, b) ==
    IF b = <<>> THEN FALSE
    ELSE IF a = <<>> THEN TRUE
    ELSE IF Head(a) # Head(b) THEN Head(a) < Head(b)
    ELSE StrLess(Tail(a), Tail(b))

\* x put into the ascending sequence s, after the elements equal to it
RECURSIVE SortInsert(_, _)
SortInsert(x, s) ==
    IF s = <<>> THEN <<x>>
    ELSE IF StrLess(x, Head(s)) THEN <<x>> \o s
    ELSE <<Head(s)>> \o SortInsert(x, Tail(s))

RECURSIVE SortFrom(_, _)
SortFrom(s, acc) ==
    IF s = <<>> THEN acc ELSE SortFrom(Tail(s), SortInsert(Head(s), acc))

\* the mutant of ArraySort: the array left in source order
ArraySortNone(s) == s

\* Array.prototype.sort() on an array of strings
ArraySort(s) == SortFrom(s, <<>>)

\* Array.prototype.join(sep)
RECURSIVE ArrayJoin(_, _)
ArrayJoin(s, sep) ==
    IF s = <<>> THEN <<>>
    ELSE IF Len(s) = 1 THEN s[1]
    ELSE s[1] \o sep \o ArrayJoin(Tail(s), sep)

\* String.prototype.includes(sub)
StrIncludes(s, sub) ==
    \E i \in 0..(Len(s) - Len(sub)) : SubSeq(s, i + 1, i + Len(sub)) = sub

\* a syntax node
Node(kind, text, kids) == [kind |-> kind, text |-> text, kids |-> kids]

\* an absent node or value (null / undefined) is the empty sequence, a present
\* one the sequence holding it
Truthy(str) == str # <<>>

-----------------------------------------------------------------------------
(* serializeTypeNode *)

\* a member of a type literal: name is the PropertyName node, kids the
\* declared type when there is one
PropertySignature(name, type) ==
    [kind |-> "PropertySignature", text |-> <<>>, kids |-> type, name |-> name]

\* propName of a member name: the text of an identifier or string literal,
\* null (the empty sequence) otherwise
PropNameOf(name) ==
    IF name.kind = "Identifier" THEN <<name.text>>
    ELSE IF name.kind = "StringLiteral" THEN <<name.text>>
    ELSE <<>>

\* if (propName && member.type)
MemberRenders(member) ==
    /\ member.kind = "PropertySignature"
    /\ PropNameOf(member.name) # <<>>
    /\ Truthy(PropNameOf(member.name)[1])
    /\ member.kids # <<>>

RECURSIVE serializeTypeNode(_)
RECURSIVE SerializeAll(_)
RECURSIVE SerializeMembers(_)

\* typeNode.types.map(serializeTypeNode)
SerializeAll(types) ==
    IF types = <<>> THEN <<>>
    ELSE <<serializeTypeNode(Head(types))>> \o SerializeAll(Tail(types))

\* the members array of the type-literal branch
SerializeMembers(members) ==
    IF members = <<>> THEN <<>>
    ELSE IF MemberRenders(Head(members))
         THEN <<PropNameOf(Head(members).name)[1] \o Text.colon
                  \o serializeTypeNode(Head(members).kids[1])>>
              \o SerializeMembers(Tail(members))
         ELSE SerializeMembers(Tail(members))

\* the union branch: map, sort, join
SerializeUnion(types) == ArrayJoin(ArraySort(SerializeAll(types)), Text.bar)

serializeTypeNode(t) ==
    IF t.kind = "StringKeyword" THEN Text.string
    ELSE IF t.kind = "NumberKeyword" THEN Text.number
    ELSE IF t.kind = "BooleanKeyword" THEN Text.boolean
    ELSE IF t.kind = "NullKeyword" THEN Text.null
    ELSE IF t.kind = "UndefinedKeyword" THEN Text.undefined
    ELSE IF t.kind = "VoidKeyword" THEN Text.void
    ELSE IF t.kind = "AnyKeyword" THEN Text.any
    ELSE IF t.kind = "UnknownKeyword" THEN Text.unknown
    ELSE IF t.kind = "NeverKeyword" THEN Text.never
    ELSE IF t.kind = "ArrayType" THEN serializeTypeNode(t.kids[1]) \o Text.brackets
    ELSE IF t.kind = "UnionType" THEN SerializeUnion(t.kids)
    ELSE IF t.kind = "IntersectionType" THEN ArrayJoin(SerializeAll(t.kids), Text.amp)
    ELSE IF t.kind = "LiteralType" /\ t.kids[1].kind = "StringLiteral"
         THEN Text.quote \o t.kids[1].text \o Text.quote
    ELSE IF t.kind = "LiteralType" /\ t.kids[1].kind = "NumericLiteral"
         THEN t.kids[1].text
    ELSE IF t.kind = "LiteralType" /\ t.kids[1].kind = "TrueKeyword" THEN Text.true
    ELSE IF t.kind = "LiteralType" /\ t.kids[1].kind = "FalseKeyword" THEN Text.false
    ELSE IF t.kind = "TypeReference"
         THEN IF Len(t.kids) > 0
              THEN t.text \o Text.lt \o ArrayJoin(SerializeAll(t.kids), Text.comma) \o Text.gt
              ELSE t.text
    ELSE IF t.kind = "TypeLiteral"
         THEN Text.lbrace \o ArrayJoin(SerializeMembers(t.kids), Text.semi) \o Text.rbrace
    ELSE IF t.kind = "ParenthesizedType" THEN serializeTypeNode(t.kids[1])
    ELSE t.text

(* Type nodes drawn as inputs. *)

\* all sequences over S with a length in lo..hi
SeqsOf(S, lo, hi) == UNION {[1..n -> S] : n \in lo..hi}

Keyword(kind, text) == Node(kind, text, <<>>)
TypeReference(name, typeArguments) == Node("TypeReference", name, typeArguments)
UnionType(types) == Node("UnionType", <<>>, types)
ParenthesizedType(type) == Node("ParenthesizedType", <<>>, <<type>>)
LiteralType(kind, text) == Node("LiteralType", text, <<Node(kind, text, <<>>)>>)
Identifier(text) == Node("Identifier", text, <<>>)

StringKeyword == Keyword("StringKeyword", Text.string)

\* the types a, b, ab and string
TypeAtoms ==
    {TypeReference(Names.a, <<>>), TypeReference(Names.b, <<>>), TypeReference(Names.ab, <<>>),
     StringKeyword}

\* (x | y) for x, y among a and b
ParenUnions ==
    {ParenthesizedType(UnionType(<<x, y>>)) :
        x, y \in {TypeReference(Names.a, <<>>), TypeReference(Names.b, <<>>)}}

\* what the parser makes a member of a union: never a union itself
UnionMembers == TypeAtoms \cup ParenUnions

UnionInputs == {UnionType(types) : types \in SeqsOf(UnionMembers, 2, MaxMembers)}

KeywordInputs ==
    {Keyword("StringKeyword", Text.string), Keyword("NumberKeyword", Text.number),
     Keyword("BooleanKeyword", Text.boolean), Keyword("NullKeyword", Text.null),
     Keyword("UndefinedKeyword", Text.undefined), Keyword("VoidKeyword", Text.void),
     Keyword("AnyKeyword", Text.any), Keyword("UnknownKeyword", Text.unknown),
     Keyword("NeverKeyword", Text.never)}

\* { x: string }, { "x": a; b?; [k]: a; 1: a; m(): a } and {}
TypeLiteralInputs ==
    {Node("TypeLiteral", <<>>, <<PropertySignature(Identifier(Names.x), <<StringKeyword>>)>>),
     Node("TypeLiteral", <<>>,
          <<PropertySignature(Node("StringLiteral", Names.x, <<>>), <<TypeReference(Names.a, <<>>)>>),
            PropertySignature(Identifier(Names.b), <<>>),
            PropertySignature(Node("ComputedPropertyName", <<>>, <<>>), <<TypeReference(Names.a, <<>>)>>),
            PropertySignature(Node("NumericLiteral", <<49>>, <<>>), <<TypeReference(Names.a, <<>>)>>),
            [kind |-> "MethodSignature", text |-> <<>>, kids |-> <<>>, name |-> Identifier(Names.a)]>>),
     Node("TypeLiteral", <<>>, <<>>)}

OtherTypeInputs ==
    KeywordInputs \cup TypeLiteralInputs
    \cup {Node("ArrayType", <<>>, <<t>>) : t \in TypeAtoms}
    \cup {Node("IntersectionType", <<>>, <<x, y>>) : x, y \in TypeAtoms}
    \cup {TypeReference(Names.ab, <<x, y>>) : x, y \in TypeAtoms}
    \cup {ParenthesizedType(t) : t \in TypeAtoms}
    \cup {LiteralType("StringLiteral", Names.a), LiteralType("NumericLiteral", <<49>>),
          LiteralType("TrueKeyword", Text.true), LiteralType("FalseKeyword", Text.false),
          LiteralType("NullKeyword", Text.null),
          LiteralType("PrefixUnaryExpression", <<45, 49>>),
          Node("TupleType", <<91, 97, 93>>, <<>>)}

TypeInputs == TypeAtoms \cup UnionInputs \cup OtherTypeInputs

\* the value a variable of another component holds
NoNode == Node("None", <<>>, <<>>)

TyIdle == typeNode = NoNode /\ serialized = <<>> /\ tyPc = "idle"
TyInit == typeNode \in TypeInputs /\ serialized = <<>> /\ tyPc = "call"

\* serializeTypeNode(typeNode) returns
CallSerializeTypeNode ==
    /\ tyPc = "call"
    /\ serialized' = serializeTypeNode(typeNode)
    /\ tyPc' = "done"
    /\ UNCHANGED <<typeNode, notTy>>

-----------------------------------------------------------------------------
(* resolveTypeAlias and parseObjectType *)

\* call depth at which the engine's stack is exhausted (RangeError)
MaxStack == 4
\* most statements of a source file drawn as an input to parseObjectType
MaxAliasStatements == 2

\* the nodes of a tree in the order visit / ts.forEachChild reaches them
RECURSIVE PreOrder(_)
RECURSIVE PreOrderAll(_)
PreOrder(node) == <<node>> \o PreOrderAll(node.kids)
PreOrderAll(nodes) ==
    IF nodes = <<>> THEN <<>>
    ELSE PreOrder(Head(nodes)) \o PreOrderAll(Tail(nodes))

\* the first node of s of one of the kinds and with the name, as an optional
\* value: what visit leaves in resolvedType
RECURSIVE LastDeclaration(_, _, _)
LastDeclaration(s, kinds, typeName) ==
    IF s = <<>> THEN <<>>
    ELSE IF s[Len(s)].kind \in kinds /\ s[Len(s)].text = typeName THEN <<s[Len(s)]>>
    ELSE LastDeclaration(SubSeq(s, 1, Len(s) - 1), kinds, typeName)

RECURSIVE FirstDeclaration(_, _, _)
FirstDeclaration(s, kinds, typeName) ==
    IF s = <<>> THEN <<>>
    ELSE IF Head(s).kind \in kinds /\ Head(s).text = typeName THEN <<Head(s)>>
    ELSE FirstDeclaration(Tail(s), kinds, typeName)

\* resolveTypeAlias(typeName, sourceFile): the type of the first alias of that
\* name that visit reaches, or null
resolveTypeAlias(typeName, file) ==
    LET found == FirstDeclaration(PreOrder(file), {"TypeAliasDeclaration"}, typeName)
    IN  IF found = <<>> THEN <<>> ELSE <<found[1].kids[1]>>

\* whether a property key is an array index: the decimal digits of an
\* integer, without a leading zero (the keys here are far below 2^32 - 1)
IsArrayIndex(key) ==
    /\ key # <<>>
    /\ \A i \in 1..Len(key) : key[i] \in 48..57
    /\ (Len(key) > 1 => key[1] # 48)

RECURSIVE IndexValue(_)
IndexValue(key) ==
    IF key = <<>> THEN 0
    ELSE 10 * IndexValue(SubSeq(key, 1, Len(key) - 1)) + (key[Len(key)] - 48)

\* where a new own property goes among the keys as Object.keys / for-in /
\* toEqual list them: array indices first, ascending, then the other keys
\* in the order they were created
RECURSIVE RecordInsert(_, _, _)
RecordInsert(params, key, value) ==
    IF params = <<>> THEN <<<<key, value>>>>
    ELSE IF /\ IsArrayIndex(key)
            /\ (~IsArrayIndex(Head(params)[1])
                   \/ IndexValue(key) < IndexValue(Head(params)[1]))
         THEN <<<<key, value>>>> \o params
    ELSE <<Head(params)>> \o RecordInsert(Tail(params), key, value)

\* params[key] = value on a Record made by {} and kept as its list of
\* <<key, value>> entries: an existing key keeps its place; __proto__ is the
\* accessor of Object.prototype, whose setter ignores a string
RecordSet(params, key, value) ==
    IF key = Names.proto THEN params
    ELSE IF \E i \in 1..Len(params) : params[i][1] = key
    THEN [i \in 1..Len(params) |->
             IF params[i][1] = key THEN <<key, value>> ELSE params[i]]
    ELSE RecordInsert(params, key, value)

\* the loop over typeNode.members of parseObjectType
RECURSIVE TypeLiteralParams(_, _)
TypeLiteralParams(members, params) ==
    IF members = <<>> THEN params
    ELSE IF MemberRenders(Head(members))
         THEN TypeLiteralParams(Tail(members),
                  RecordSet(params, PropNameOf(Head(members).name)[1],
                            serializeTypeNode(Head(members).kids[1])))
         ELSE TypeLiteralParams(Tail(members), params)

\* whether this call of parseObjectType calls itself on the resolved type
PoResolves ==
    /\ poNode.kind = "TypeReference"
    /\ poHasFile
    /\ resolveTypeAlias(poNode.text, poFile) # <<>>

TypeAliasDeclaration(name, type) == Node("TypeAliasDeclaration", name, <<type>>)

\* { x: string }
ObjectTypeX ==
    Node("TypeLiteral", <<>>, <<PropertySignature(Identifier(Names.x), <<StringKeyword>>)>>)

\* type a = ..., type b = ..., interface a {}, namespace N { type a = {x: string} }
AliasStatements ==
    {TypeAliasDeclaration(name, type) :
        name \in {Names.a, Names.b},
        type \in {TypeReference(Names.a, <<>>), TypeReference(Names.b, <<>>), ObjectTypeX,
                  StringKeyword}}
    \cup {Node("InterfaceDeclaration", Names.a, <<>>),
          Node("ModuleDeclaration", <<78>>, <<TypeAliasDeclaration(Names.a, ObjectTypeX)>>)}

AliasFiles ==
    {Node("SourceFile", <<>>, stmts) : stmts \in SeqsOf(AliasStatements, 0, MaxAliasStatements)}

PoTypeNodes ==
    {TypeReference(Names.a, <<>>), TypeReference(Names.b, <<>>), TypeReference(Names.ab, <<>>),
     TypeReference(Names.qualified, <<>>), ObjectTypeX, StringKeyword}

\* Promise, Promise<{ x: string }>, Promise<a>, Promise<{ x: string }, string>,
\* a<{ x: string }>: what extractReturnTypeFromPromise is called on besides
\* the type nodes above
PromiseTypeNodes ==
    {TypeReference(Text.Promise, <<>>),
     TypeReference(Text.Promise, <<ObjectTypeX>>),
     TypeReference(Text.Promise, <<TypeReference(Names.a, <<>>)>>),
     TypeReference(Text.Promise, <<ObjectTypeX, StringKeyword>>),
     TypeReference(Names.a, <<ObjectTypeX>>)}

\* actualType of extractReturnTypeFromPromise: the first type argument of a
\* reference named Promise that has type arguments, else the type node
ActualType(node) ==
    IF /\ node.kind = "TypeReference"
       /\ node.text = Text.Promise
       /\ Len(node.kids) > 0
    THEN node.kids[1]
    ELSE node

PoIdle ==
    /\ poFile = NoNode /\ poHasFile = FALSE /\ poNode = NoNode /\ poTailCalls = FALSE
    /\ poDepth = 0 /\ poParams = <<>> /\ poPc = "idle"

\* parseObjectType(poNode, poFile) is called (poPc = "call"), the source
\* file being optional, or extractReturnTypeFromPromise(poNode, poFile) is
\* (poPc = "unwrap")
PoInit ==
    /\ poFile \in AliasFiles
    /\ \/ poPc = "call" /\ poHasFile \in BOOLEAN /\ poNode \in PoTypeNodes
       \/ poPc = "unwrap" /\ poHasFile = TRUE /\ poNode \in PoTypeNodes \cup PromiseTypeNodes
    /\ poTailCalls \in BOOLEAN
    /\ poDepth = 0
    /\ poParams = <<>>

\* extractReturnTypeFromPromise up to its return: parseObjectType is called
\* on actualType
PoUnwrap ==
    /\ poPc = "unwrap"
    /\ poNode' = ActualType(poNode)
    /\ poPc' = "call"
    /\ UNCHANGED <<poFile, poHasFile, poTailCalls, poDepth, poParams, notPo>>

\* return parseObjectType(resolvedType, sourceFile), a call in tail position:
\* one more frame, or the caller's frame again on an engine that makes
\* proper tail calls (poTailCalls)
PoRecurse ==
    /\ poPc = "call"
    /\ PoResolves
    /\ poDepth < MaxStack
    /\ poNode' = resolveTypeAlias(poNode.text, poFile)[1]
    /\ poDepth' = (IF poTailCalls THEN poDepth ELSE poDepth + 1)
    /\ UNCHANGED <<poFile, poHasFile, poTailCalls, poParams, poPc, notPo>>

\* the same call with the stack exhausted: the engine throws RangeError
PoStackOverflow ==
    /\ poPc = "call"
    /\ PoResolves
    /\ poDepth >= MaxStack
    /\ poPc' = "RangeError"
    /\ UNCHANGED <<poFile, poHasFile, poNode, poTailCalls, poDepth, poParams, notPo>>

\* the innermost call returns params, and every caller returns it unchanged
PoReturn ==
    /\ poPc = "call"
    /\ ~PoResolves
    /\ poParams' = (IF poNode.kind = "TypeLiteral"
                    THEN TypeLiteralParams(poNode.kids, <<>>) ELSE <<>>)
    /\ poPc' = "done"
    /\ UNCHANGED <<poFile, poHasFile, poNode, poTailCalls, poDepth, notPo>>

-----------------------------------------------------------------------------
(* getTypeString (checker path) *)

\* most constituents of a union handle drawn as an input
MaxConstituents == 3

\* a type handle: whether type.isUnion(), its constituents type.types, and
\* what checker.typeToString gives for it
TypeHandle(isUnion, types, str) == [isUnion |-> isUnion, types |-> types, str |-> str]

\* the mutant of DropNever: nothing is dropped
DropNeverNone(strs) == strs

\* the constituent strings that are not exactly "never"
DropNever(strs) == SelectSeq(strs, LAMBDA str : str # Text.never)

RECURSIVE getTypeString(_)
RECURSIVE TypeStringsOf(_)
TypeStringsOf(types) ==
    IF types = <<>> THEN <<>>
    ELSE <<getTypeString(Head(types))>> \o TypeStringsOf(Tail(types))

getTypeString(type) ==
    IF type.isUnion
    THEN LET kept == DropNever(TypeStringsOf(type.types))
         IN  IF kept = <<>> THEN Text.never
             ELSE IF Len(kept) = 1 THEN kept[1]
             ELSE ArrayJoin(kept, Text.bar)
    ELSE type.str

PlainHandle(str) == TypeHandle(FALSE, <<>>, str)
UnionHandle(types) == TypeHandle(TRUE, types, <<>>)

PlainHandles == {PlainHandle(Text.never), PlainHandle(Text.string), PlainHandle(Text.number)}

\* never | never and never | string, as constituents of a larger union
InnerUnionHandles ==
    {UnionHandle(<<PlainHandle(Text.never), PlainHandle(Text.never)>>),
     UnionHandle(<<PlainHandle(Text.never), PlainHandle(Text.string)>>)}

HandleInputs ==
    PlainHandles
    \cup {UnionHandle(types) :
            types \in SeqsOf(PlainHandles \cup InnerUnionHandles, 0, MaxConstituents)}

NoHandle == PlainHandle(<<>>)

GtIdle == tyHandle = NoHandle /\ typeString = <<>> /\ gtPc = "idle"
GtInit == tyHandle \in HandleInputs /\ typeString = <<>> /\ gtPc = "call"

\* getTypeString(tyHandle, checker) returns
CallGetTypeString ==
    /\ gtPc = "call"
    /\ typeString' = getTypeString(tyHandle)
    /\ gtPc' = "done"
    /\ UNCHANGED <<tyHandle, notGt>>

-----------------------------------------------------------------------------
(* inferTypeFromExpression *)

\* whether x is an element of the sequence s
InSeq(x, s) == \E i \in 1..Len(s) : s[i] = x

\* Set.prototype.add on a Set kept as the list of its values in insertion order
SetAdd(set, x) == IF InSeq(x, set) THEN set ELSE Append(set, x)

\* the mutant of ElementContributes: only omitted slots are passed over
ElementContributesSpread(element) == element.kind # "OmittedExpression"

\* element && !ts.isOmittedExpression(element) && !ts.isSpreadElement(element)
ElementContributes(element) ==
    /\ element.kind # "OmittedExpression"
    /\ element.kind # "SpreadElement"

\* the mutant of UnionOfElementTypes: the element types sorted before the join
UnionOfElementTypesSorted(elementTypes) == ArrayJoin(ArraySort(elementTypes), Text.bar)

\* Array.from(elementTypes).join(" | ")
UnionOfElementTypes(elementTypes) == ArrayJoin(elementTypes, Text.bar)

\* the mutant of MergeBranches: the second operand's type first
MergeBranchesReversed(first, second) ==
    IF first = second THEN first ELSE second \o Text.bar \o first

\* the merge of the two operand types of a conditional or of ||; when both
\* are falsy control falls through every later test to return "unknown"
MergeBranches(first, second) ==
    IF Truthy(first) /\ Truthy(second)
    THEN IF first = second THEN first ELSE first \o Text.bar \o second
    ELSE IF Truthy(first) THEN first
    ELSE IF Truthy(second) THEN second
    ELSE Text.unknown

\* the tests on the name of an identifier
IdentifierTypeBooleanFirst(name) ==
    IF name = Text.undefined THEN Text.undefined
    ELSE IF StrIncludes(name, Text.enabled) \/ StrIncludes(name, Text.is) \/ StrIncludes(name, Text.has)
         THEN Text.boolean
    ELSE IF StrIncludes(name, Text.Id) \/ StrIncludes(name, Text.Name) \/ StrIncludes(name, Text.Key)
         THEN Text.string \o Text.bar \o Text.null \o Text.bar \o Text.undefined
    ELSE Text.unknown

IdentifierType(name) ==
    IF name = Text.undefined THEN Text.undefined
    ELSE IF StrIncludes(name, Text.Id) \/ StrIncludes(name, Text.Name) \/ StrIncludes(name, Text.Key)
         THEN Text.string \o Text.bar \o Text.null \o Text.bar \o Text.undefined
    ELSE IF StrIncludes(name, Text.enabled) \/ StrIncludes(name, Text.is) \/ StrIncludes(name, Text.has)
         THEN Text.boolean
    ELSE Text.unknown

\* the array branch once the element types are collected
ArrayTypeOf(elements, elementTypes) ==
    IF Len(elements) > 0 /\ Len(elementTypes) = 1 /\ InSeq(Text.string, elementTypes)
        THEN Text.string \o Text.brackets
    ELSE IF Len(elements) > 0 /\ Len(elementTypes) = 1 /\ InSeq(Text.number, elementTypes)
        THEN Text.number \o Text.brackets
    ELSE IF Len(elements) > 0 /\ Len(elementTypes) = 1 /\ InSeq(Text.boolean, elementTypes)
        THEN Text.boolean \o Text.brackets
    ELSE IF Len(elements) > 0 /\ Len(elementTypes) > 0
        THEN Text.lparen \o UnionOfElementTypes(elementTypes) \o Text.rparenBrackets
    ELSE Text.unknown \o Text.brackets

\* the mutant of ObjectTypeOf: the braces around the join, also when nothing
\* was collected
ObjectTypeOfJoined(objectProps) ==
    Text.lbrace \o ArrayJoin(objectProps, Text.semi) \o Text.rbrace

\* objectProps.length > 0 ? `{ ${objectProps.join("; ")} }` : "{}"
ObjectTypeOf(objectProps) ==
    IF Len(objectProps) > 0
    THEN Text.lbrace \o ArrayJoin(objectProps, Text.semi) \o Text.rbrace
    ELSE Text.emptyObject

RECURSIVE inferTypeFromExpression(_)
RECURSIVE ElementTypes(_, _)
RECURSIVE ObjectProps(_)

\* the loop over node.elements
ElementTypes(elements, elementTypes) ==
    IF elements = <<>> THEN elementTypes
    ELSE IF ElementContributes(Head(elements))
               /\ Truthy(inferTypeFromExpression(Head(elements)))
         THEN ElementTypes(Tail(elements),
                  SetAdd(elementTypes, inferTypeFromExpression(Head(elements))))
         ELSE ElementTypes(Tail(elements), elementTypes)

\* the loop over node.properties
ObjectProps(properties) ==
    IF properties = <<>> THEN <<>>
    ELSE LET prop == Head(properties)
             rest == ObjectProps(Tail(properties))
         IN  IF prop.kind = "PropertyAssignment"
             THEN IF /\ PropNameOf(prop.name) # <<>>
                     /\ Truthy(PropNameOf(prop.name)[1])
                     /\ Truthy(inferTypeFromExpression(prop.kids[1]))
                  THEN <<PropNameOf(prop.name)[1] \o Text.colon
                           \o inferTypeFromExpression(prop.kids[1])>> \o rest
                  ELSE rest
             ELSE IF prop.kind = "ShorthandPropertyAssignment"
             THEN IF Truthy(inferTypeFromExpression(Identifier(prop.text)))
                  THEN <<prop.text \o Text.colon
                           \o inferTypeFromExpression(Identifier(prop.text))>> \o rest
                  ELSE rest
             ELSE rest

\* every if of the function that matches no node of the kind falls through
\* to the final return "unknown"
inferTypeFromExpression(node) ==
    IF node.kind = "StringLiteral" THEN Text.string
    ELSE IF node.kind = "NumericLiteral" THEN Text.number
    ELSE IF node.kind \in {"TrueKeyword", "FalseKeyword"} THEN Text.boolean
    ELSE IF node.kind = "NullKeyword" THEN Text.null
    ELSE IF node.kind = "UndefinedKeyword" THEN Text.undefined
    ELSE IF node.kind = "ArrayLiteralExpression"
         THEN ArrayTypeOf(node.kids, ElementTypes(node.kids, <<>>))
    ELSE IF node.kind = "ObjectLiteralExpression"
         THEN ObjectTypeOf(ObjectProps(node.kids))
    ELSE IF node.kind = "NewExpression" /\ node.kids[1].kind = "Identifier"
         THEN IF node.kids[1].text = Text.Date THEN Text.Date ELSE Text.object
    ELSE IF node.kind = "AsExpression"
         THEN IF /\ node.type.kind = "TypeReference"
                 /\ node.type.text = Text.const
              THEN inferTypeFromExpression(node.kids[1])
              ELSE inferTypeFromExpression(node.kids[1])
    ELSE IF node.kind = "ConditionalExpression"
         THEN MergeBranches(inferTypeFromExpression(node.kids[2]),
                            inferTypeFromExpression(node.kids[3]))
    ELSE IF node.kind = "BinaryExpression"
         THEN IF node.op = "BarBarToken"
              THEN MergeBranches(inferTypeFromExpression(node.kids[1]),
                                 inferTypeFromExpression(node.kids[2]))
              ELSE IF node.op = "AmpersandAmpersandToken"
              THEN IF Truthy(inferTypeFromExpression(node.kids[2]))
                   THEN inferTypeFromExpression(node.kids[2]) ELSE Text.unknown
              ELSE IF node.op \in {"EqualsEqualsEqualsToken", "ExclamationEqualsEqualsToken",
                                   "LessThanToken", "GreaterThanToken",
                                   "LessThanEqualsToken", "GreaterThanEqualsToken"}
              THEN Text.boolean
              ELSE IF node.op \in {"PercentToken", "PlusToken", "MinusToken",
                                   "AsteriskToken", "SlashToken"}
              THEN Text.number
              ELSE Text.unknown
    ELSE IF node.kind = "CallExpression"
         THEN LET expr == node.kids[1]
              IN  IF expr.kind = "PropertyAccessExpression"
                  THEN IF expr.text \in {Text.filter, Text.slice}
                           THEN inferTypeFromExpression(expr.kids[1])
                       ELSE IF expr.text \in {Text.toString, Text.substr} THEN Text.string
                       ELSE IF expr.text = Text.get THEN Text.string \o Text.bar \o Text.null
                       ELSE IF expr.text \in {Text.now, Text.random} THEN Text.number
                       ELSE Text.unknown
                  ELSE IF expr.kind = "Identifier"
                  THEN IF expr.text \in {Text.parseInt, Text.parseFloat, Text.Number} THEN Text.number
                       ELSE IF expr.text = Text.String THEN Text.string
                       ELSE IF expr.text = Text.Boolean THEN Text.boolean
                       ELSE Text.unknown
                  ELSE Text.unknown
    ELSE IF node.kind = "PrefixUnaryExpression"
         THEN IF node.op = "ExclamationToken" THEN Text.boolean
              ELSE IF node.op \in {"PlusToken", "MinusToken"} THEN Text.number
              ELSE Text.unknown
    ELSE IF node.kind = "Identifier" THEN IdentifierType(node.text)
    ELSE IF node.kind \in {"TemplateExpression", "NoSubstitutionTemplateLiteral"}
         THEN Text.string
    ELSE IF node.kind = "SpreadElement" THEN inferTypeFromExpression(node.kids[1])
    ELSE Text.unknown

(* Expressions drawn as inputs. *)

ArrayLiteralExpression(elements) == Node("ArrayLiteralExpression", <<>>, elements)
SpreadElement(expression) == Node("SpreadElement", <<>>, <<expression>>)
OmittedExpression == Node("OmittedExpression", <<>>, <<>>)
ConditionalExpression(condition, whenTrue, whenFalse) ==
    Node("ConditionalExpression", <<>>, <<condition, whenTrue, whenFalse>>)
BinaryExpression(left, op, right) ==
    [kind |-> "BinaryExpression", text |-> <<>>, kids |-> <<left, right>>, op |-> op]
PrefixUnaryExpression(op, operand) ==
    [kind |-> "PrefixUnaryExpression", text |-> <<>>, kids |-> <<operand>>, op |-> op]
AsExpression(expression, type) ==
    [kind |-> "AsExpression", text |-> <<>>, kids |-> <<expression>>, type |-> type]
PropertyAssignment(name, initializer) ==
    [kind |-> "PropertyAssignment", text |-> <<>>, kids |-> <<initializer>>, name |-> name]
CallExpression(expression) == Node("CallExpression", <<>>, <<expression>>)
NewExpression(expression) == Node("NewExpression", <<>>, <<expression>>)

\* "a", 1, true, null, x and undefined
ExprLeaves ==
    {Node("StringLiteral", Names.a, <<>>), Node("NumericLiteral", <<49>>, <<>>),
     Node("TrueKeyword", Text.true, <<>>), Node("NullKeyword", Text.null, <<>>),
     Identifier(Names.x), Identifier(Text.undefined)}

\* what an element of an array literal is drawn from: a leaf, an omitted
\* slot, ...x
ElementInputs == ExprLeaves \cup {OmittedExpression, SpreadElement(Identifier(Names.x))}

ArrayInputs ==
    {ArrayLiteralExpression(elements) : elements \in SeqsOf(ElementInputs, 0, MaxElements)}

\* c ? a : b, a || b and a && b over the leaves
BranchInputs ==
    {ConditionalExpression(Identifier(Names.x), a, b) : a, b \in ExprLeaves}
    \cup {BinaryExpression(a, op, b) :
            a, b \in ExprLeaves, op \in {"BarBarToken", "AmpersandAmpersandToken"}}

OtherExprInputs ==
    {BinaryExpression(Node("StringLiteral", Names.a, <<>>), op, Identifier(Names.x)) :
        op \in {"EqualsEqualsEqualsToken", "PlusToken", "CommaToken"}}
    \cup {PrefixUnaryExpression(op, Identifier(Names.x)) :
            op \in {"ExclamationToken", "MinusToken", "TildeToken"}}
    \cup {NewExpression(Identifier(Text.Date)), NewExpression(Identifier(Names.a)),
          NewExpression(Node("PropertyAccessExpression", Names.a, <<Identifier(Names.x)>>)),
          AsExpression(Node("NumericLiteral", <<49>>, <<>>), TypeReference(Text.const, <<>>)),
          AsExpression(Node("NumericLiteral", <<49>>, <<>>), StringKeyword),
          CallExpression(Identifier(Text.parseInt)), CallExpression(Identifier(Names.a)),
          CallExpression(Node("PropertyAccessExpression", Text.get, <<Identifier(Names.x)>>)),
          CallExpression(Node("PropertyAccessExpression", Text.filter,
                              <<ArrayLiteralExpression(<<Node("NumericLiteral", <<49>>, <<>>)>>)>>)),
          Node("TemplateExpression", <<>>, <<>>),
          Node("ArrowFunction", <<>>, <<>>),
          Node("ObjectLiteralExpression", <<>>, <<>>),
          Node("ObjectLiteralExpression", <<>>,
               <<PropertyAssignment(Identifier(Names.a), Node("NumericLiteral", <<49>>, <<>>)),
                 Node("ShorthandPropertyAssignment", Names.x, <<>>),
                 PropertyAssignment(Node("ComputedPropertyName", <<>>, <<>>),
                                    Node("NumericLiteral", <<49>>, <<>>))>>)}

\* the pieces identifier names are made of: the substrings the heuristics
\* look for, pieces of them (I, d) and a neutral letter
NameFragments ==
    {Text.Id, Text.Name, Text.Key, Text.enabled, Text.is, Text.has, <<73>>, <<100>>, Names.x}

RECURSIVE ConcatAll(_)
ConcatAll(strs) == IF strs = <<>> THEN <<>> ELSE Head(strs) \o ConcatAll(Tail(strs))

\* identifiers such as isKey, hasName, Id, dI, xis
IdentifierInputs ==
    {Identifier(ConcatAll(fragments)) : fragments \in SeqsOf(NameFragments, 1, MaxFragments)}

ExprInputs ==
    ExprLeaves \cup ArrayInputs \cup BranchInputs \cup OtherExprInputs \cup IdentifierInputs

InIdle == exprNode = NoNode /\ inferred = <<>> /\ inPc = "idle"
InInit == exprNode \in ExprInputs /\ inferred = <<>> /\ inPc = "call"

\* inferTypeFromExpression(exprNode) returns
CallInferTypeFromExpression ==
    /\ inPc = "call"
    /\ inferred' = inferTypeFromExpression(exprNode)
    /\ inPc' = "done"
    /\ UNCHANGED <<exprNode, notIn>>

-----------------------------------------------------------------------------
(* analyzeExports *)

\* most statements of a source file drawn as an input to analyzeExports
MaxStatements == 2

\* a declaration that can carry modifiers: name is node.name when present
Declaration(kind, modifiers, name, kids) ==
    [kind |-> kind, text |-> <<>>, kids |-> kids, modifiers |-> modifiers, name |-> name]

\* a variable statement: each declarator has the kind of its name (an
\* identifier or a binding pattern) and the name's text
VariableStatement(modifiers, declarations) ==
    [kind |-> "VariableStatement", text |-> <<>>, kids |-> <<>>,
     modifiers |-> modifiers, declarations |-> declarations]

\* an export declaration: exportClause is absent (export * from), a
\* NamedExports list or a NamespaceExport
ExportDeclaration(exportClause) ==
    [kind |-> "ExportDeclaration", text |-> <<>>, kids |-> <<>>,
     exportClause |-> exportClause]

\* a specifier of an export list: name is the exported name, propertyName
\* the local one when the specifier renames
ExportSpecifier(propertyName, name) == [propertyName |-> propertyName, name |-> name]

ExportAssignment(isExportEquals) ==
    [kind |-> "ExportAssignment", text |-> <<>>, kids |-> <<>>,
     isExportEquals |-> isExportEquals]

\* namedExports.push(...) for every element
RECURSIVE PushAll(_, _)
PushAll(names, more) ==
    IF more = <<>> THEN names ELSE PushAll(Append(names, Head(more)), Tail(more))

\* the mutant of SpecifierNames: the local name of a renamed specifier
RECURSIVE SpecifierNamesLocal(_)
SpecifierNamesLocal(elements) ==
    IF elements = <<>> THEN <<>>
    ELSE <<IF Head(elements).propertyName # <<>>
           THEN Head(elements).propertyName[1] ELSE Head(elements).name>>
         \o SpecifierNamesLocal(Tail(elements))

\* element.name.text of every specifier
RECURSIVE SpecifierNames(_)
SpecifierNames(elements) ==
    IF elements = <<>> THEN <<>>
    ELSE <<Head(elements).name>> \o SpecifierNames(Tail(elements))

\* declaration.name.text of every declarator whose name is an identifier
RECURSIVE DeclaratorNames(_)
DeclaratorNames(declarations) ==
    IF declarations = <<>> THEN <<>>
    ELSE IF Head(declarations).kind = "Identifier"
         THEN <<Head(declarations).text>> \o DeclaratorNames(Tail(declarations))
         ELSE DeclaratorNames(Tail(declarations))

DeclarationKinds ==
    {"VariableStatement", "FunctionDeclaration", "ClassDeclaration",
     "TypeAliasDeclaration", "InterfaceDeclaration"}

\* the names an exported, non-default declaration pushes
DeclaredNames(node) ==
    IF node.kind = "VariableStatement" THEN DeclaratorNames(node.declarations)
    ELSE IF node.name # <<>> THEN <<node.name[1]>>
    ELSE <<>>

\* the mutant of VisitDeclaration: a default declaration counts as named too
VisitDeclarationDefaultNamed(node, acc) ==
    IF node.kind \in DeclarationKinds /\ "ExportKeyword" \in node.modifiers
    THEN [hasNamedExports |-> TRUE,
          hasDefaultExport |-> acc.hasDefaultExport \/ "DefaultKeyword" \in node.modifiers,
          namedExports |-> PushAll(acc.namedExports, DeclaredNames(node))]
    ELSE acc

\* the first if of visit: export declarations with an export clause
VisitExportDeclaration(node, acc) ==
    IF node.kind = "ExportDeclaration" /\ node.exportClause # <<>>
    THEN [acc EXCEPT !.hasNamedExports = TRUE,
                     !.namedExports =
                        IF node.exportClause[1].kind = "NamedExports"
                        THEN PushAll(@, SpecifierNames(node.exportClause[1].elements))
                        ELSE @]
    ELSE acc

\* the second if of visit: declarations with the export modifier
VisitDeclaration(node, acc) ==
    IF node.kind \in DeclarationKinds /\ "ExportKeyword" \in node.modifiers
    THEN IF "DefaultKeyword" \in node.modifiers
         THEN [acc EXCEPT !.hasDefaultExport = TRUE]
         ELSE [acc EXCEPT !.hasNamedExports = TRUE,
                          !.namedExports = PushAll(@, DeclaredNames(node))]
    ELSE acc

\* the mutant of VisitExportAssignment: export default takes the named flag
\* back
VisitExportAssignmentResets(node, acc) ==
    IF node.kind = "ExportAssignment" /\ ~node.isExportEquals
    THEN [acc EXCEPT !.hasDefaultExport = TRUE, !.hasNamedExports = FALSE]
    ELSE acc

\* the third if of visit: export default <expression>
VisitExportAssignment(node, acc) ==
    IF node.kind = "ExportAssignment" /\ ~node.isExportEquals
    THEN [acc EXCEPT !.hasDefaultExport = TRUE]
    ELSE acc

\* the mutant of ExportTypeOf: the named flag is looked at first
ExportTypeOfNamedFirst(named, default) ==
    IF named THEN "named" ELSE IF default THEN "default" ELSE "none"

\* the conditional that computes exportType
ExportTypeOf(named, default) ==
    IF named /\ default THEN "both"
    ELSE IF default THEN "default"
    ELSE IF named THEN "named"
    ELSE "none"

\* [...new Set(namedExports)]
RECURSIVE SetFrom(_, _)
SetFrom(names, set) ==
    IF names = <<>> THEN set ELSE SetFrom(Tail(names), SetAdd(set, Head(names)))

Dedupe(names) == SetFrom(names, <<>>)

(* Source files drawn as inputs. *)

Export == {"ExportKeyword"}
ExportDefault == {"ExportKeyword", "DefaultKeyword"}

\* export const X = 1, { a } = o
ExportedVariables ==
    VariableStatement(Export, <<Node("Identifier", Names.X, <<>>),
                                Node("ObjectBindingPattern", <<>>, <<>>)>>)

ExportStatements ==
    {Declaration("FunctionDeclaration", Export, <<Names.f>>, <<>>),
     Declaration("FunctionDeclaration", ExportDefault, <<Names.g>>, <<>>),
     Declaration("FunctionDeclaration", {}, <<Names.f>>, <<ExportedVariables>>),
     Declaration("ClassDeclaration", Export, <<Names.C>>, <<>>),
     Declaration("ClassDeclaration", ExportDefault, <<>>, <<>>),
     Declaration("InterfaceDeclaration", Export, <<Names.f>>, <<>>),
     Declaration("TypeAliasDeclaration", Export, <<Names.T>>, <<>>),
     Declaration("ModuleDeclaration", Export, <<Names.g>>,
                 <<Declaration("TypeAliasDeclaration", Export, <<Names.T>>, <<>>)>>),
     ExportedVariables,
     VariableStatement({}, <<Node("Identifier", Names.X, <<>>)>>),
     ExportDeclaration(<<[kind |-> "NamedExports",
                          elements |-> <<ExportSpecifier(<<Names.f>>, Names.g),
                                         ExportSpecifier(<<>>, Names.X)>>]>>),
     ExportDeclaration(<<[kind |-> "NamespaceExport", elements |-> <<>>]>>),
     ExportDeclaration(<<>>),
     ExportAssignment(FALSE),
     ExportAssignment(TRUE),
     Node("ImportDeclaration", <<>>, <<>>)}

ExportFiles ==
    {Node("SourceFile", <<>>, stmts) : stmts \in SeqsOf(ExportStatements, 0, MaxStatements)}

NoExportInfo == [exportType |-> "", namedExports |-> <<>>, hasDefaultExport |-> FALSE]

ExIdle ==
    /\ sourceFile = NoNode /\ toVisit = <<>>
    /\ hasNamedExports = FALSE /\ hasDefaultExport = FALSE /\ namedExports = <<>>
    /\ exportInfo = NoExportInfo /\ exPc = "idle"

\* the locals of analyzeExports before visit(sourceFile)
ExInit ==
    /\ sourceFile \in ExportFiles
    /\ toVisit = PreOrder(sourceFile)
    /\ hasNamedExports = FALSE
    /\ hasDefaultExport = FALSE
    /\ namedExports = <<>>
    /\ exportInfo = NoExportInfo
    /\ exPc = "visit"

\* the three ifs of visit on one node, in their order
VisitNode(node, acc) ==
    VisitExportAssignment(node, VisitDeclaration(node, VisitExportDeclaration(node, acc)))

\* visit(node) up to ts.forEachChild, for the next node in document order
Visit ==
    /\ exPc = "visit"
    /\ toVisit # <<>>
    /\ LET acc == VisitNode(Head(toVisit),
                            [hasNamedExports |-> hasNamedExports,
                             hasDefaultExport |-> hasDefaultExport,
                             namedExports |-> namedExports])
       IN  /\ hasNamedExports' = acc.hasNamedExports
           /\ hasDefaultExport' = acc.hasDefaultExport
           /\ namedExports' = acc.namedExports
    /\ toVisit' = Tail(toVisit)
    /\ UNCHANGED <<sourceFile, exportInfo, exPc, notEx>>

\* visit(sourceFile) has returned: the result object is built
Return ==
    /\ exPc = "visit"
    /\ toVisit = <<>>
    /\ exportInfo' = [exportType |-> ExportTypeOf(hasNamedExports, hasDefaultExport),
                      namedExports |-> Dedupe(namedExports),
                      hasDefaultExport |-> hasDefaultExport]
    /\ exPc' = "done"
    /\ UNCHANGED <<sourceFile, toVisit, hasNamedExports, hasDefaultExport, namedExports,
                   notEx>>

-----------------------------------------------------------------------------
(* findNodes and findFirstNode *)

\* most children of the source file of a tree drawn as an input
MaxChildren == 2
\* most children of a statement of such a tree
MaxGrandchildren == 1

\* predicate(node): the type guards the callers pass (ts.isClassDeclaration,
\* ts.isSourceFile, ...) test the node's kind
Predicate(guard, node) == node.kind = guard

FindLeaves == {Node(kind, <<>>, <<>>) : kind \in {"ClassDeclaration", "FunctionDeclaration"}}

FindStatements ==
    {Node(kind, <<>>, kids) :
        kind \in {"ClassDeclaration", "FunctionDeclaration"},
        kids \in SeqsOf(FindLeaves, 0, MaxGrandchildren)}

FindTrees == {Node("SourceFile", <<>>, stmts) : stmts \in SeqsOf(FindStatements, 0, MaxChildren)}

\* a guard that matches the root, two that match inner nodes, one that
\* matches no node of these trees
FindGuards == {"SourceFile", "ClassDeclaration", "FunctionDeclaration", "InterfaceDeclaration"}

FnIdle ==
    /\ fnRoot = NoNode /\ fnPredicate = "" /\ fnStack = <<>> /\ results = <<>>
    /\ result = <<>> /\ predicateCalls = <<>> /\ fnPc = "idle"

\* findNodes(sourceFile, predicate) about to call visit(sourceFile);
\* predicateCalls logs the nodes findFirstNode hands to the predicate
FnInit ==
    /\ fnRoot \in FindTrees
    /\ fnPredicate \in FindGuards
    /\ fnStack = <<fnRoot>>
    /\ results = <<>>
    /\ result = <<>>
    /\ predicateCalls = <<>>
    /\ fnPc = "findNodes"

\* ts.forEachChild(node, visit): the children are visited in order, before
\* whatever was pending
ForEachChildReversed(node, pending) ==
    [i \in 1..Len(node.kids) |-> node.kids[Len(node.kids) + 1 - i]] \o pending

ForEachChild(node, pending) == node.kids \o pending

\* if (result) return: a node is an object, so any node is truthy
EarlyExitNever(found) == FALSE

EarlyExit(found) == found # <<>>

\* visit(node) of findNodes: push on a match, then ts.forEachChild
FindNodesVisit ==
    /\ fnPc = "findNodes"
    /\ fnStack # <<>>
    /\ LET node == Head(fnStack)
       IN  /\ results' = (IF Predicate(fnPredicate, node)
                          THEN Append(results, node) ELSE results)
           /\ fnStack' = ForEachChild(node, Tail(fnStack))
    /\ UNCHANGED <<fnRoot, fnPredicate, result, predicateCalls, fnPc, notFn>>

\* findNodes returns results; findFirstNode is called on the same arguments
FindNodesReturn ==
    /\ fnPc = "findNodes"
    /\ fnStack = <<>>
    /\ fnStack' = <<fnRoot>>
    /\ fnPc' = "findFirstNode"
    /\ UNCHANGED <<fnRoot, fnPredicate, results, result, predicateCalls, notFn>>

\* visit(node) of findFirstNode: return at once when result is set; on a
\* match set result and return; otherwise ts.forEachChild, which goes on to
\* the next child because visit returns undefined
FindFirstVisit ==
    /\ fnPc = "findFirstNode"
    /\ fnStack # <<>>
    /\ LET node == Head(fnStack)
       IN  IF EarlyExit(result)
           THEN /\ fnStack' = Tail(fnStack)
                /\ UNCHANGED <<result, predicateCalls>>
           ELSE /\ predicateCalls' = Append(predicateCalls, node)
                /\ IF Predicate(fnPredicate, node)
                   THEN /\ result' = <<node>>
                        /\ fnStack' = Tail(fnStack)
                   ELSE /\ result' = result
                        /\ fnStack' = ForEachChild(node, Tail(fnStack))
    /\ UNCHANGED <<fnRoot, fnPredicate, results, fnPc, notFn>>

\* findFirstNode returns result
FindFirstReturn ==
    /\ fnPc = "findFirstNode"
    /\ fnStack = <<>>
    /\ fnPc' = "done"
    /\ UNCHANGED <<fnRoot, fnPredicate, fnStack, results, result, predicateCalls, notFn>>

-----------------------------------------------------------------------------
(* getPropertyName and parseGeneratedInterfaces *)

\* most members of an interface drawn as an input
MaxInterfaceMembers == 2
\* most statements of the content drawn as an input
MaxInterfaces == 2
\* most spans of a template literal type drawn as an input
MaxSpans == 2

\* `head${...}literal${...}literal`: head and each span's literal are the
\* nodes the code tests for presence, kept as optional texts
TemplateLiteralType(head, templateSpans) ==
    [kind |-> "TemplateLiteralType", text |-> <<>>, kids |-> <<>>,
     head |-> head, templateSpans |-> templateSpans]

TemplateSpan(literal) == [literal |-> literal]

ComputedPropertyName(expression) ==
    [kind |-> "ComputedPropertyName", text |-> <<>>, kids |-> <<>>,
     expression |-> expression]

\* [key: type]: ...; parameters is member.parameters, each with its optional type
IndexSignature(parameters) ==
    [kind |-> "IndexSignature", text |-> <<>>, kids |-> <<>>, parameters |-> parameters]

InterfaceDeclaration(name, members) == Node("InterfaceDeclaration", name, members)

\* the loop over templateLiteral.templateSpans
RECURSIVE PatternOfSpans(_, _)
PatternOfSpans(templateSpans, pattern) ==
    IF templateSpans = <<>> THEN pattern
    ELSE PatternOfSpans(Tail(templateSpans),
             pattern \o Text.placeholder
                 \o (IF Head(templateSpans).literal # <<>>
                     THEN Head(templateSpans).literal[1] ELSE <<>>))

\* the pattern of a template literal type, null without a head
TemplatePatternHeadless(templateLiteral) ==
    IF templateLiteral.head = <<>> THEN <<>>
    ELSE <<PatternOfSpans(templateLiteral.templateSpans, <<>>)>>

TemplatePattern(templateLiteral) ==
    IF templateLiteral.head = <<>> THEN <<>>
    ELSE <<PatternOfSpans(templateLiteral.templateSpans, templateLiteral.head[1])>>

extractPropertyName(name) ==
    IF name.kind \in {"Identifier", "StringLiteral", "NumericLiteral"}
    THEN <<name.text>> ELSE <<>>

getPropertyName(name) ==
    LET simpleName == extractPropertyName(name)
    IN  IF simpleName # <<>> /\ Truthy(simpleName[1]) THEN simpleName
        ELSE IF name.kind = "ComputedPropertyName"
                /\ name.expression.kind = "TemplateLiteralType"
             THEN TemplatePattern(name.expression)
             ELSE <<>>

\* propName of one member of the interface, null when there is none
MemberPropName(member) ==
    IF member.kind = "PropertySignature" THEN getPropertyName(member.name)
    ELSE IF member.kind = "IndexSignature"
         THEN IF /\ member.parameters # <<>>
                 /\ member.parameters[1].type # <<>>
                 /\ member.parameters[1].type[1].kind = "TemplateLiteralType"
              THEN TemplatePattern(member.parameters[1].type[1])
              ELSE <<>>
    ELSE <<>>

\* if (propName): neither null nor the empty string
MemberContributes(member) ==
    MemberPropName(member) # <<>> /\ Truthy(MemberPropName(member)[1])

\* handlers[interfaceName] on an object literal: the handler registered under
\* the name, else what the name finds on Object.prototype (__proto__ is the
\* prototype object itself, toString a function), else undefined
HandlerLookup(registered, interfaceName) ==
    IF interfaceName \in DOMAIN registered THEN registered[interfaceName]
    ELSE IF interfaceName = Names.proto THEN "Object.prototype"
    ELSE IF interfaceName = Text.toString THEN "Object.prototype.toString"
    ELSE "undefined"

\* what calling the value as handler(propName, member, results) does.  A
\* registered handler is the caller's code: one that pushes propName on
\* results, one that throws an Error, one that throws a value that has no
\* string conversion (a Symbol).  Calling the prototype object throws
\* TypeError: handler is not a function.
HandlerThrows(handler) == handler \in {"throwError", "throwSymbol", "Object.prototype"}

\* `${error}` in the catch block: a Symbol has no string conversion, and the
\* template literal throws TypeError
Stringifiable(handler) == handler # "throwSymbol"

HandlerEffect(handler, propName, acc) ==
    IF handler = "push" THEN Append(acc, propName) ELSE acc

(* Contents and handlers drawn as inputs. *)

PropA == PropertySignature(Identifier(Names.a), <<StringKeyword>>)
PropB == PropertySignature(Identifier(Names.b), <<StringKeyword>>)

\* the literal texts of the templates: empty, "a", "b"
PgTemplates ==
    {TemplateLiteralType(<<head>>, spans) :
        head \in {<<>>, Names.a},
        spans \in SeqsOf({TemplateSpan(<<literal>>) : literal \in {<<>>, Names.b}},
                         1, MaxSpans)}

\* [key: `...`]: string for each template, and the same templates as the
\* expression of a computed name, the shape getPropertyName tests for
PgTemplateMembers ==
    {IndexSignature(<<[type |-> <<t>>]>>) : t \in PgTemplates}
    \cup {PropertySignature(ComputedPropertyName(t), <<StringKeyword>>) : t \in PgTemplates}

\* a: string; b: string; f(): void; "": string; 0: string; [KEY]: string;
\* [key: string]: string; [key: `a${string}`]: string
PgMembers ==
    {PropA, PropB, Node("MethodSignature", Names.f, <<>>),
     PropertySignature(Node("StringLiteral", <<>>, <<>>), <<StringKeyword>>),
     PropertySignature(Node("NumericLiteral", <<48>>, <<>>), <<StringKeyword>>),
     PropertySignature(ComputedPropertyName(Identifier(Names.KEY)), <<StringKeyword>>),
     IndexSignature(<<[type |-> <<StringKeyword>>]>>),
     IndexSignature(<<[type |-> <<TemplateLiteralType(<<Names.a>>, <<TemplateSpan(<<<<>>>>)>>)>>]>>)}

\* interface Config { a; b }, interface Other { a }, interface toString { a },
\* interface __proto__ { a }, type Config = string,
\* namespace N { interface Config { b } }
PgStatements ==
    {InterfaceDeclaration(Names.Config, <<PropA, PropB>>),
     InterfaceDeclaration(Names.Other, <<PropA>>),
     InterfaceDeclaration(Text.toString, <<PropA>>),
     InterfaceDeclaration(Names.proto, <<PropA>>),
     TypeAliasDeclaration(Names.Config, StringKeyword),
     Node("ModuleDeclaration", <<78>>, <<InterfaceDeclaration(Names.Config, <<PropB>>)>>)}

\* what ts.createSourceFile makes of content
PgFiles ==
    {Node("SourceFile", <<>>, stmts) : stmts \in SeqsOf(PgStatements, 0, MaxInterfaces)}
    \cup {Node("SourceFile", <<>>, <<InterfaceDeclaration(Names.Config, members)>>) :
            members \in SeqsOf(PgMembers, 0, MaxInterfaceMembers)}
    \cup {Node("SourceFile", <<>>, <<InterfaceDeclaration(Names.Config, <<member>>)>>) :
            member \in PgTemplateMembers}

\* the handlers argument: which names are registered, and what each handler does
PgHandlers ==
    {<<>>,
     Names.Config :> "push",
     (Names.Config :> "push") @@ (Names.Other :> "push"),
     (Names.Config :> "push") @@ (Names.Other :> "throwError"),
     (Names.Config :> "throwError") @@ (Names.Other :> "push"),
     Names.Config :> "throwSymbol"}

PgIdle ==
    /\ pgFile = NoNode /\ handlers = <<>> /\ pgStack = <<>> /\ pgMembers = <<>>
    /\ pgHandler = <<>> /\ pgResults = <<>> /\ invocations = <<>> /\ warnings = 0
    /\ pgPc = "idle"

\* parseGeneratedInterfaces(content, handlers, results) inside try, about to
\* call visit(sourceFile); invocations logs the calls of handler
PgInit ==
    /\ pgFile \in PgFiles
    /\ handlers \in PgHandlers
    /\ pgStack = <<pgFile>>
    /\ pgMembers = <<>>
    /\ pgHandler = <<>>
    /\ pgResults = <<>>
    /\ invocations = <<>>
    /\ warnings = 0
    /\ pgPc = "visit"

\* visit(node) up to the loop over the members: the loop is entered for an
\* interface whose name finds something truthy in handlers
PgVisit ==
    /\ pgPc = "visit"
    /\ pgStack # <<>>
    /\ LET node == Head(pgStack)
           handler == HandlerLookup(handlers, node.text)
       IN  /\ pgStack' = ForEachChild(node, Tail(pgStack))
           /\ IF node.kind = "InterfaceDeclaration" /\ handler # "undefined"
              THEN /\ pgMembers' = node.kids
                   /\ pgHandler' = <<node.text, handler>>
                   /\ pgPc' = "members"
              ELSE UNCHANGED <<pgMembers, pgHandler, pgPc>>
    /\ UNCHANGED <<pgFile, handlers, pgResults, invocations, warnings, notPg>>

\* one turn of the loop in which nothing is thrown: the handler is called
\* when propName is truthy, and returns
PgMember ==
    /\ pgPc = "members"
    /\ pgMembers # <<>>
    /\ LET member == Head(pgMembers)
       IN  /\ ~(MemberContributes(member) /\ HandlerThrows(pgHandler[2]))
           /\ IF MemberContributes(member)
              THEN /\ invocations' = Append(invocations,
                          [handler |-> pgHandler[1],
                           propName |-> MemberPropName(member)[1],
                           member |-> member])
                   /\ pgResults' = HandlerEffect(pgHandler[2], MemberPropName(member)[1],
                                                 pgResults)
              ELSE UNCHANGED <<invocations, pgResults>>
    /\ pgMembers' = Tail(pgMembers)
    /\ UNCHANGED <<pgFile, handlers, pgStack, pgHandler, warnings, pgPc, notPg>>

\* one turn of the loop in which the call throws: control reaches the catch
\* block, whose console.warn formats the error with `${error}`; then
\* return results, unless that conversion has thrown in its turn
PgCatch ==
    /\ pgPc = "members"
    /\ pgMembers # <<>>
    /\ LET member == Head(pgMembers)
       IN  /\ MemberContributes(member) /\ HandlerThrows(pgHandler[2])
           /\ invocations' = Append(invocations,
                  [handler |-> pgHandler[1],
                   propName |-> MemberPropName(member)[1],
                   member |-> member])
    /\ IF Stringifiable(pgHandler[2])
       THEN warnings' = warnings + 1 /\ pgPc' = "done"
       ELSE warnings' = warnings /\ pgPc' = "TypeError"
    /\ UNCHANGED <<pgFile, handlers, pgStack, pgMembers, pgHandler, pgResults, notPg>>

\* the loop is over: ts.forEachChild(node, visit)
PgMembersDone ==
    /\ pgPc = "members"
    /\ pgMembers = <<>>
    /\ pgPc' = "visit"
    /\ UNCHANGED <<pgFile, handlers, pgStack, pgMembers, pgHandler, pgResults,
                   invocations, warnings, notPg>>

\* visit(sourceFile) has returned: return results
PgReturn ==
    /\ pgPc = "visit"
    /\ pgStack = <<>>
    /\ pgPc' = "done"
    /\ UNCHANGED <<pgFile, handlers, pgStack, pgMembers, pgHandler, pgResults,
                   invocations, warnings, notPg>>

-----------------------------------------------------------------------------
(* extractPropertiesFromObjectLiteral, and the calls of the pure helpers *)

\* most properties of an object literal drawn as an input
MaxProperties == 2
\* longest property key drawn as an input of isValidIdentifier
MaxKeyLength == 3

\* propType of a shorthand property: the type inferred from its name, and
\* the name heuristics once more when that is "unknown"
ShorthandType(propName) ==
    LET propType == inferTypeFromExpression(Identifier(propName))
    IN  IF propType = Text.unknown /\ Truthy(propName)
        THEN IF StrIncludes(propName, Text.Id) \/ StrIncludes(propName, Text.Name)
                   \/ StrIncludes(propName, Text.Key)
             THEN Text.string \o Text.bar \o Text.null \o Text.bar \o Text.undefined
             ELSE IF StrIncludes(propName, Text.enabled) \/ StrIncludes(propName, Text.is)
                   \/ StrIncludes(propName, Text.has)
             THEN Text.boolean
             ELSE propType
        ELSE propType

\* the loop over objectLiteral.properties
RECURSIVE StateProperties(_, _)
StateProperties(properties, stateProperties) ==
    IF properties = <<>> THEN stateProperties
    ELSE LET prop == Head(properties)
         IN  IF prop.kind = "PropertyAssignment"
             THEN IF /\ PropNameOf(prop.name) # <<>>
                     /\ Truthy(PropNameOf(prop.name)[1])
                     /\ Truthy(inferTypeFromExpression(prop.kids[1]))
                  THEN StateProperties(Tail(properties),
                           RecordSet(stateProperties, PropNameOf(prop.name)[1],
                                     inferTypeFromExpression(prop.kids[1])))
                  ELSE StateProperties(Tail(properties), stateProperties)
             ELSE IF prop.kind = "ShorthandPropertyAssignment"
                     /\ Truthy(ShorthandType(prop.text))
             THEN StateProperties(Tail(properties),
                      RecordSet(stateProperties, prop.text, ShorthandType(prop.text)))
             ELSE StateProperties(Tail(properties), stateProperties)

extractPropertiesFromObjectLiteral(objectLiteral) ==
    StateProperties(objectLiteral.kids, <<>>)

\* a JavaScript value: a string holds its code units, a number <<n>>, a
\* boolean <<TRUE>> or <<FALSE>>, an array its elements, null, undefined and
\* the empty object {} nothing
Value(type, value) == [type |-> type, value |-> value]

\* Number(text) for the text of a numeric literal, which the scanner has
\* already brought to decimal digits
RECURSIVE NumberOf(_)
NumberOf(text) ==
    IF text = <<>> THEN 0
    ELSE 10 * NumberOf(SubSeq(text, 1, Len(text) - 1)) + (text[Len(text)] - 48)

getLiteralValue(node) ==
    IF node.kind \in {"StringLiteral", "NoSubstitutionTemplateLiteral"}
        THEN Value("string", node.text)
    ELSE IF node.kind = "NumericLiteral" THEN Value("number", <<NumberOf(node.text)>>)
    ELSE IF node.kind = "TrueKeyword" THEN Value("boolean", <<TRUE>>)
    ELSE IF node.kind = "FalseKeyword" THEN Value("boolean", <<FALSE>>)
    ELSE IF node.kind = "NullKeyword" THEN Value("null", <<>>)
    ELSE IF node.kind = "UndefinedKeyword" THEN Value("undefined", <<>>)
    ELSE Value("undefined", <<>>)

\* node.elements.map(...).filter((val) => val !== undefined)
getArrayLiteralValues(node) ==
    IF node.kind = "ArrayLiteralExpression"
    THEN SelectSeq([i \in 1..Len(node.kids) |-> getLiteralValue(node.kids[i])],
                   LAMBDA val : val # Value("undefined", <<>>))
    ELSE <<>>

\* the mutant of GetText: the text a literal stands for
GetTextEvaluated(node) == node.text

\* node.getText(): the source text of a name or literal
GetText(node) ==
    IF node.kind = "StringLiteral" THEN Text.quote \o node.text \o Text.quote
    ELSE node.text

\* the loop over node.properties
RECURSIVE ObjectProperties(_)
ObjectProperties(properties) ==
    IF properties = <<>> THEN <<>>
    ELSE LET property == Head(properties)
             rest == ObjectProperties(Tail(properties))
             isComputed == property.name.kind = "ComputedPropertyName"
             key == IF isComputed THEN GetText(property.name.expression)
                    ELSE property.name.text
             initializer == property.kids[1]
             value == IF initializer.kind = "ArrayLiteralExpression"
                          THEN Value("array", getArrayLiteralValues(initializer))
                      ELSE IF initializer.kind = "ObjectLiteralExpression"
                          THEN Value("object", <<>>)
                      ELSE getLiteralValue(initializer)
         IN  IF property.kind = "PropertyAssignment"
                  /\ property.name.kind \in {"Identifier", "StringLiteral",
                                             "ComputedPropertyName"}
             THEN <<[key |-> key, value |-> value, valueNode |-> initializer,
                     isComputed |-> isComputed]>> \o rest
             ELSE rest

getObjectProperties(node) == ObjectProperties(node.kids)

\* ts.isPropertyAssignment(property) && ts.isIdentifier(property.name)
\*     && property.name.text === propertyName
IsNamed(property, propertyName) ==
    /\ property.kind = "PropertyAssignment"
    /\ property.name.kind = "Identifier"
    /\ property.name.text = propertyName

\* the loop returns at the first property of the name
getObjectPropertyValue(node, propertyName) ==
    LET named == SelectSeq(node.kids, LAMBDA property : IsNamed(property, propertyName))
    IN  IF named # <<>> THEN getLiteralValue(named[1].kids[1])
        ELSE Value("undefined", <<>>)

\* the loop returns at the first property of the name whose initializer is
\* the true or the false keyword
getBooleanPropertyValue(node, propertyName) ==
    LET keywords ==
            SelectSeq(node.kids,
                      LAMBDA property :
                          /\ IsNamed(property, propertyName)
                          /\ property.kids[1].kind \in {"TrueKeyword", "FalseKeyword"})
    IN  IF keywords # <<>>
        THEN Value("boolean", <<keywords[1].kids[1].kind = "TrueKeyword">>)
        ELSE Value("null", <<>>)

hasObjectProperty(node, propertyName) ==
    Value("boolean", <<getObjectPropertyValue(node, propertyName) # Value("undefined", <<>>)>>)

\* a: 1, a: "a", "b": true, "": 1, "0": 1, 0: 1, [x]: 1, __proto__: 1,
\* the shorthands x, userId, isOn and undefined, f() {}, ...x,
\* a: true, a: false, a: null, a: undefined, a: x, a: [1, x, null], a: {},
\* ["a"]: 1 and get a() {}
PropertyInputs ==
    {PropertyAssignment(Identifier(Names.a), Node("NumericLiteral", <<49>>, <<>>)),
     PropertyAssignment(Identifier(Names.a), Node("StringLiteral", Names.a, <<>>)),
     PropertyAssignment(Node("StringLiteral", Names.b, <<>>), Node("TrueKeyword", Text.true, <<>>)),
     PropertyAssignment(Node("StringLiteral", <<>>, <<>>), Node("NumericLiteral", <<49>>, <<>>)),
     PropertyAssignment(Node("StringLiteral", <<48>>, <<>>), Node("NumericLiteral", <<49>>, <<>>)),
     PropertyAssignment(Node("NumericLiteral", <<48>>, <<>>), Node("NumericLiteral", <<49>>, <<>>)),
     PropertyAssignment(ComputedPropertyName(Identifier(Names.x)),
                        Node("NumericLiteral", <<49>>, <<>>)),
     PropertyAssignment(Identifier(Names.proto), Node("NumericLiteral", <<49>>, <<>>)),
     Node("ShorthandPropertyAssignment", Names.x, <<>>),
     Node("ShorthandPropertyAssignment", <<117, 115, 101, 114>> \o Text.Id, <<>>),
     Node("ShorthandPropertyAssignment", Text.is \o <<79, 110>>, <<>>),
     Node("ShorthandPropertyAssignment", Text.undefined, <<>>),
     Node("MethodDeclaration", Names.f, <<>>),
     Node("SpreadAssignment", <<>>, <<Identifier(Names.x)>>),
     PropertyAssignment(Identifier(Names.a), Node("TrueKeyword", Text.true, <<>>)),
     PropertyAssignment(Identifier(Names.a), Node("FalseKeyword", Text.false, <<>>)),
     PropertyAssignment(Identifier(Names.a), Node("NullKeyword", Text.null, <<>>)),
     PropertyAssignment(Identifier(Names.a), Identifier(Text.undefined)),
     PropertyAssignment(Identifier(Names.a), Identifier(Names.x)),
     PropertyAssignment(Identifier(Names.a),
         ArrayLiteralExpression(<<Node("NumericLiteral", <<49>>, <<>>), Identifier(Names.x),
                                  Node("NullKeyword", Text.null, <<>>)>>)),
     PropertyAssignment(Identifier(Names.a), Node("ObjectLiteralExpression", <<>>, <<>>)),
     PropertyAssignment(ComputedPropertyName(Node("StringLiteral", Names.a, <<>>)),
                        Node("NumericLiteral", <<49>>, <<>>)),
     Node("GetAccessor", Names.a, <<>>)}

ObjectLiteralInputs ==
    {Node("ObjectLiteralExpression", <<>>, properties) :
        properties \in SeqsOf(PropertyInputs, 0, MaxProperties)}

\* x: string, "x": a, b with no type, [k]: a, 1: a, m(): a and "": string
SignatureInputs ==
    {PropertySignature(Identifier(Names.x), <<StringKeyword>>),
     PropertySignature(Node("StringLiteral", Names.x, <<>>), <<TypeReference(Names.a, <<>>)>>),
     PropertySignature(Identifier(Names.b), <<>>),
     PropertySignature(Node("ComputedPropertyName", <<>>, <<>>), <<TypeReference(Names.a, <<>>)>>),
     PropertySignature(Node("NumericLiteral", <<49>>, <<>>), <<TypeReference(Names.a, <<>>)>>),
     [kind |-> "MethodSignature", text |-> <<>>, kids |-> <<>>, name |-> Identifier(Names.a)],
     PropertySignature(Node("StringLiteral", <<>>, <<>>), <<StringKeyword>>)}

\* a Record<string, string> is the list of its own <<key, value>> entries in
\* property order; Object.keys(a).sort() is the sorted list of its keys
areRecordsEqual(a, b) ==
    LET aKeys == ArraySort([i \in 1..Len(a) |-> a[i][1]])
        bKeys == ArraySort([i \in 1..Len(b) |-> b[i][1]])
        Get(record, key) == record[CHOOSE i \in 1..Len(record) : record[i][1] = key][2]
    IN  IF Len(aKeys) # Len(bKeys) THEN FALSE
        ELSE \A i \in 1..Len(aKeys) :
                 /\ ~(aKeys[i] # bKeys[i] \/ ~Truthy(aKeys[i]) \/ ~Truthy(bKeys[i]))
                 /\ Get(a, aKeys[i]) = Get(b, bKeys[i])

\* the records of up to MaxProperties entries with keys among "", a and b
\* and values among string and number
RecordInputs ==
    {record \in SeqsOf({<<>>, Names.a, Names.b} \X {Text.string, Text.number},
                       0, MaxProperties) :
        \A i, j \in 1..Len(record) : i # j => record[i][1] # record[j][1]}

\* the mutant of isValidIdentifier: the first character may be a digit
isValidIdentifierAnyStart(str) ==
    /\ Len(str) > 0
    /\ \A i \in 1..Len(str) :
           str[i] \in (97..122) \cup (65..90) \cup (48..57) \cup {95, 36}

\* VALID_IDENTIFIER_REGEX.test(str), the regular expression being
\* /^[a-zA-Z_$][a-zA-Z0-9_$]*$/: without the m flag $ is the end of the string
isValidIdentifier(str) ==
    /\ Len(str) > 0
    /\ str[1] \in (97..122) \cup (65..90) \cup {95, 36}
    /\ \A i \in 2..Len(str) :
           str[i] \in (97..122) \cup (65..90) \cup (48..57) \cup {95, 36}

formatPropertyKey(key) ==
    IF isValidIdentifier(key) THEN key ELSE Text.quote \o key \o Text.quote

\* the keys of up to MaxKeyLength characters among a, Z, _, $, 1, -, space,
\* ., line feed and e with an acute accent
KeyInputs == SeqsOf({97, 90, 95, 36, 49, 45, 32, 46, 10, 233}, 0, MaxKeyLength)

\* ts.isCallExpression(node) && ts.isIdentifier(node.expression)
\*     && functionNames.includes(node.expression.text)
IsNamedCall(node, functionNames) ==
    /\ node.kind = "CallExpression"
    /\ node.kids[1].kind = "Identifier"
    /\ InSeq(node.kids[1].text, functionNames)

\* the mutant of VisitCalls: export = f() counts as an exported call too
VisitCallsExportEquals(nodes, i, functionNames) ==
    (IF nodes[i].kind = "ExportAssignment" /\ IsNamedCall(nodes[i].kids[1], functionNames)
     THEN <<[name |-> nodes[i].kids[1].kids[1].text, node |-> i + 1, isExported |-> TRUE]>>
     ELSE <<>>)
    \o (IF IsNamedCall(nodes[i], functionNames)
        THEN <<[name |-> nodes[i].kids[1].text, node |-> i, isExported |-> FALSE]>>
        ELSE <<>>)

\* what visit pushes onto calls at the i-th node of the walk. A node is
\* told from an equal one by its place in the walk; the expression of an
\* export assignment is its first child, the next node of the walk.
VisitCalls(nodes, i, functionNames) ==
    (IF /\ nodes[i].kind = "ExportAssignment"
        /\ ~nodes[i].isExportEquals
        /\ IsNamedCall(nodes[i].kids[1], functionNames)
     THEN <<[name |-> nodes[i].kids[1].kids[1].text, node |-> i + 1, isExported |-> TRUE]>>
     ELSE <<>>)
    \o (IF IsNamedCall(nodes[i], functionNames)
        THEN <<[name |-> nodes[i].kids[1].text, node |-> i, isExported |-> FALSE]>>
        ELSE <<>>)

\* visit(sourceFile): every node in the order of ts.forEachChild
extractFunctionCalls(file, functionNames) ==
    LET nodes == PreOrder(file)
    IN  ConcatAll([i \in 1..Len(nodes) |-> VisitCalls(nodes, i, functionNames)])

\* f(), g(), f(g()), a.f(), h() and await f()
CallExpressionInputs ==
    {Node("CallExpression", <<>>, <<Identifier(Names.f)>>),
     Node("CallExpression", <<>>, <<Identifier(Names.g)>>),
     Node("CallExpression", <<>>,
          <<Identifier(Names.f), Node("CallExpression", <<>>, <<Identifier(Names.g)>>)>>),
     Node("CallExpression", <<>>,
          <<Node("PropertyAccessExpression", Names.f, <<Identifier(Names.a)>>)>>),
     Node("CallExpression", <<>>, <<Identifier(Names.x)>>),
     Node("AwaitExpression", <<>>, <<Node("CallExpression", <<>>, <<Identifier(Names.f)>>)>>)}

\* each of them as an expression statement, as export default and as
\* export =, and export default f
CallStatements ==
    {Node("ExpressionStatement", <<>>, <<call>>) : call \in CallExpressionInputs}
    \cup {[kind |-> "ExportAssignment", text |-> <<>>, kids |-> <<expression>>,
           isExportEquals |-> isExportEquals] :
             expression \in CallExpressionInputs \cup {Identifier(Names.f)},
             isExportEquals \in BOOLEAN}

CallIdle == callee = "" /\ callArgs = <<>> /\ callResult = <<>> /\ callPc = "idle"

\* the function called and its arguments
CallInit ==
    /\ \/ /\ callee = "resolveTypeAlias"
          /\ callArgs \in {<<typeName, file>> :
                              typeName \in {Names.a, Names.b}, file \in AliasFiles}
       \/ /\ callee = "extractPropertiesFromObjectLiteral"
          /\ callArgs \in {<<objectLiteral>> : objectLiteral \in ObjectLiteralInputs}
       \/ /\ callee = "getObjectProperties"
          /\ callArgs \in {<<objectLiteral>> : objectLiteral \in ObjectLiteralInputs}
       \/ /\ callee \in {"hasObjectProperty", "getBooleanPropertyValue"}
          /\ callArgs \in {<<objectLiteral, propertyName>> :
                              objectLiteral \in ObjectLiteralInputs,
                              propertyName \in {Names.a, Names.b}}
       \/ /\ callee = "getLiteralValue"
          /\ callArgs \in {<<node>> :
                              node \in ExprLeaves
                                        \cup {Keyword("UndefinedKeyword", Text.undefined)}}
       \/ /\ callee = "getArrayLiteralValues"
          /\ callArgs \in {<<node>> : node \in ArrayInputs \cup ExprLeaves}
       \/ /\ callee = "areRecordsEqual"
          /\ callArgs \in RecordInputs \X RecordInputs
       \/ /\ callee \in {"isValidIdentifier", "formatPropertyKey"}
          /\ callArgs \in {<<key>> : key \in KeyInputs}
       \/ /\ callee = "extractFunctionCalls"
          /\ callArgs \in {<<Node("SourceFile", <<>>, statements), functionNames>> :
                              statements \in SeqsOf(CallStatements, 0, MaxStatements),
                              functionNames \in {<<>>, <<Names.f>>, <<Names.g, Names.f>>,
                                                 <<Names.f, Names.f>>}}
       \/ /\ callee = "serializeTypeNode"
          /\ callArgs \in {<<Node("TypeLiteral", <<>>, members)>> :
                              members \in SeqsOf(SignatureInputs, 0, MaxProperties)}
       \/ /\ callee = "inferTypeFromExpression"
          /\ callArgs \in {<<objectLiteral>> : objectLiteral \in ObjectLiteralInputs}
    /\ callResult = <<>>
    /\ callPc = "call"

\* resolveTypeAlias(typeName, sourceFile) returns resolvedType or null
CallResolveTypeAlias ==
    /\ callPc = "call"
    /\ callee = "resolveTypeAlias"
    /\ callResult' = resolveTypeAlias(callArgs[1], callArgs[2])
    /\ callPc' = "done"
    /\ UNCHANGED <<callee, callArgs, notCall>>

\* extractPropertiesFromObjectLiteral(objectLiteral) returns stateProperties
CallExtractPropertiesFromObjectLiteral ==
    /\ callPc = "call"
    /\ callee = "extractPropertiesFromObjectLiteral"
    /\ callResult' = extractPropertiesFromObjectLiteral(callArgs[1])
    /\ callPc' = "done"
    /\ UNCHANGED <<callee, callArgs, notCall>>

\* serializeTypeNode(typeNode) returns, for a type literal
SerializeTypeLiteral ==
    /\ callPc = "call"
    /\ callee = "serializeTypeNode"
    /\ callResult' = serializeTypeNode(callArgs[1])
    /\ callPc' = "done"
    /\ UNCHANGED <<callee, callArgs, notCall>>

\* inferTypeFromExpression(node) returns, for an object literal
InferObjectLiteral ==
    /\ callPc = "call"
    /\ callee = "inferTypeFromExpression"
    /\ callResult' = inferTypeFromExpression(callArgs[1])
    /\ callPc' = "done"
    /\ UNCHANGED <<callee, callArgs, notCall>>

\* getObjectProperties(node) returns properties
CallGetObjectProperties ==
    /\ callPc = "call"
    /\ callee = "getObjectProperties"
    /\ callResult' = getObjectProperties(callArgs[1])
    /\ callPc' = "done"
    /\ UNCHANGED <<callee, callArgs, notCall>>

\* hasObjectProperty(node, propertyName) returns
CallHasObjectProperty ==
    /\ callPc = "call"
    /\ callee = "hasObjectProperty"
    /\ callResult' = hasObjectProperty(callArgs[1], callArgs[2])
    /\ callPc' = "done"
    /\ UNCHANGED <<callee, callArgs, notCall>>

\* getBooleanPropertyValue(node, propertyName) returns
CallGetBooleanPropertyValue ==
    /\ callPc = "call"
    /\ callee = "getBooleanPropertyValue"
    /\ callResult' = getBooleanPropertyValue(callArgs[1], callArgs[2])
    /\ callPc' = "done"
    /\ UNCHANGED <<callee, callArgs, notCall>>

\* getLiteralValue(node) returns
CallGetLiteralValue ==
    /\ callPc = "call"
    /\ callee = "getLiteralValue"
    /\ callResult' = getLiteralValue(callArgs[1])
    /\ callPc' = "done"
    /\ UNCHANGED <<callee, callArgs, notCall>>

\* getArrayLiteralValues(node) returns
CallGetArrayLiteralValues ==
    /\ callPc = "call"
    /\ callee = "getArrayLiteralValues"
    /\ callResult' = getArrayLiteralValues(callArgs[1])
    /\ callPc' = "done"
    /\ UNCHANGED <<callee, callArgs, notCall>>

\* areRecordsEqual(a, b) returns
CallAreRecordsEqual ==
    /\ callPc = "call"
    /\ callee = "areRecordsEqual"
    /\ callResult' = Value("boolean", <<areRecordsEqual(callArgs[1], callArgs[2])>>)
    /\ callPc' = "done"
    /\ UNCHANGED <<callee, callArgs, notCall>>

\* isValidIdentifier(str) returns
CallIsValidIdentifier ==
    /\ callPc = "call"
    /\ callee = "isValidIdentifier"
    /\ callResult' = Value("boolean", <<isValidIdentifier(callArgs[1])>>)
    /\ callPc' = "done"
    /\ UNCHANGED <<callee, callArgs, notCall>>

\* formatPropertyKey(key) returns
CallFormatPropertyKey ==
    /\ callPc = "call"
    /\ callee = "formatPropertyKey"
    /\ callResult' = formatPropertyKey(callArgs[1])
    /\ callPc' = "done"
    /\ UNCHANGED <<callee, callArgs, notCall>>

\* extractFunctionCalls(sourceFile, functionNames) returns calls
CallExtractFunctionCalls ==
    /\ callPc = "call"
    /\ callee = "extractFunctionCalls"
    /\ callResult' = extractFunctionCalls(callArgs[1], callArgs[2])
    /\ callPc' = "done"
    /\ UNCHANGED <<callee, callArgs, notCall>>

-----------------------------------------------------------------------------
(* Specifications: one per entry point, the other entry points idle. *)

InitSerialize == TyInit /\ PoIdle /\ GtIdle /\ InIdle /\ ExIdle /\ FnIdle /\ PgIdle /\ CallIdle
NextSerialize == CallSerializeTypeNode
SpecSerialize == InitSerialize /\ [][NextSerialize]_vars

InitParse == TyIdle /\ PoInit /\ GtIdle /\ InIdle /\ ExIdle /\ FnIdle /\ PgIdle /\ CallIdle
NextParse == PoUnwrap \/ PoRecurse \/ PoStackOverflow \/ PoReturn
SpecParse == InitParse /\ [][NextParse]_vars

InitChecker == TyIdle /\ PoIdle /\ GtInit /\ InIdle /\ ExIdle /\ FnIdle /\ PgIdle /\ CallIdle
NextChecker == CallGetTypeString
SpecChecker == InitChecker /\ [][NextChecker]_vars

InitInfer == TyIdle /\ PoIdle /\ GtIdle /\ InInit /\ ExIdle /\ FnIdle /\ PgIdle /\ CallIdle
NextInfer == CallInferTypeFromExpression
SpecInfer == InitInfer /\ [][NextInfer]_vars

InitExports == TyIdle /\ PoIdle /\ GtIdle /\ InIdle /\ ExInit /\ FnIdle /\ PgIdle /\ CallIdle
NextExports == Visit \/ Return
SpecExports == InitExports /\ [][NextExports]_vars

InitFind == TyIdle /\ PoIdle /\ GtIdle /\ InIdle /\ ExIdle /\ FnInit /\ PgIdle /\ CallIdle
NextFind == FindNodesVisit \/ FindNodesReturn \/ FindFirstVisit \/ FindFirstReturn
SpecFind == InitFind /\ [][NextFind]_vars

InitGenerated == TyIdle /\ PoIdle /\ GtIdle /\ InIdle /\ ExIdle /\ FnIdle /\ PgInit /\ CallIdle
NextGenerated == PgVisit \/ PgMember \/ PgCatch \/ PgMembersDone \/ PgReturn
SpecGenerated == InitGenerated /\ [][NextGenerated]_vars

InitCall ==
    TyIdle /\ PoIdle /\ GtIdle /\ InIdle /\ ExIdle /\ FnIdle /\ PgIdle /\ CallInit
NextCall ==
    \/ CallResolveTypeAlias
    \/ CallExtractPropertiesFromObjectLiteral
    \/ SerializeTypeLiteral
    \/ InferObjectLiteral
    \/ CallGetObjectProperties
    \/ CallHasObjectProperty
    \/ CallGetBooleanPropertyValue
    \/ CallGetLiteralValue
    \/ CallGetArrayLiteralValues
    \/ CallAreRecordsEqual
    \/ CallIsValidIdentifier
    \/ CallFormatPropertyKey
    \/ CallExtractFunctionCalls
SpecCall == InitCall /\ [][NextCall]_vars

-----------------------------------------------------------------------------
(* Properties of serializeTypeNode. *)

\* s has no element smaller than an earlier one
IsAscending(s) == \A i, j \in 1..Len(s) : i < j => ~StrLess(s[j], s[i])

\* the sequences that hold the elements of s in some order
Rearrangements(s) ==
    {[i \in 1..Len(s) |-> s[p[i]]] : p \in Permutations(1..Len(s))}

IsUnionOfNonUnions(t) ==
    /\ t.kind = "UnionType"
    /\ \A i \in 1..Len(t.kids) : t.kids[i].kind # "UnionType"

\* C1: on a union whose members are not unions, serializeTypeNode returns the
\* members' serialized strings in ascending lexicographic order joined by
\* " | ", and every permutation of the members serializes to the same string.
C1_UnionSortedJoin ==
    (tyPc = "done" /\ IsUnionOfNonUnions(typeNode)) =>
        /\ \E s \in Rearrangements(SerializeAll(typeNode.kids)) :
              IsAscending(s) /\ serialized = ArrayJoin(s, Text.bar)
        /\ \A types \in Rearrangements(typeNode.kids) :
              serializeTypeNode(UnionType(types)) = serialized

\* a union of three members written out of order has been serialized
C1_Witness ==
    /\ tyPc = "done"
    /\ IsUnionOfNonUnions(typeNode)
    /\ Len(typeNode.kids) = 3
    /\ ~IsAscending(SerializeAll(typeNode.kids))
    /\ serialized # ArrayJoin(SerializeAll(typeNode.kids), Text.bar)

\* the set of types a union denotes: parentheses and nesting dissolved,
\* repetitions counted once
RECURSIVE MemberSet(_)
MemberSet(t) ==
    IF t.kind = "UnionType" THEN UNION {MemberSet(t.kids[i]) : i \in 1..Len(t.kids)}
    ELSE IF t.kind = "ParenthesizedType" THEN MemberSet(t.kids[1])
    ELSE {t}

\* C2: two type nodes that denote the same set of union members serialize to
\* the same string, however the members are grouped by parentheses and
\* however often one is repeated.
C2_SameMembersSameString ==
    (tyPc = "done" /\ typeNode \in TypeAtoms \cup UnionInputs) =>
        \A other \in TypeAtoms \cup UnionInputs :
            MemberSet(other) = MemberSet(typeNode)
                => serializeTypeNode(other) = serialized

-----------------------------------------------------------------------------
(* Properties of parseObjectType. *)

\* C3: parseObjectType never throws, and returns an empty property map when
\* the type node does not lead to a type literal, alias cycles included.
C3_ParseObjectTypeTotal ==
    /\ poPc # "RangeError"
    /\ (poPc = "done" /\ poNode.kind # "TypeLiteral") => poParams = <<>>

-----------------------------------------------------------------------------
(* Properties of getTypeString. *)

\* the constituents of tyHandle whose string is not "never", by position
KeptConstituents ==
    {i \in 1..Len(tyHandle.types) : getTypeString(tyHandle.types[i]) # Text.never}

\* the strings of the constituents at the positions idx, in constituent order
RECURSIVE StringsAt(_, _)
StringsAt(i, idx) ==
    IF i > Len(tyHandle.types) THEN <<>>
    ELSE IF i \in idx THEN <<getTypeString(tyHandle.types[i])>> \o StringsAt(i + 1, idx)
    ELSE StringsAt(i + 1, idx)

\* C4: for a union handle the constituents whose string is "never" are
\* dropped; none left gives "never", one left gives that constituent's string
\* alone, more give the remaining strings joined by " | " in constituent order.
C4_NeverAbsorption ==
    (gtPc = "done" /\ tyHandle.isUnion) =>
        /\ KeptConstituents = {} => typeString = Text.never
        /\ \A i \in KeptConstituents :
              KeptConstituents = {i} => typeString = getTypeString(tyHandle.types[i])
        /\ Cardinality(KeptConstituents) > 1 =>
              typeString = ArrayJoin(StringsAt(1, KeptConstituents), Text.bar)

\* a union with a never constituent between two others has been formatted
C4_Witness ==
    /\ gtPc = "done"
    /\ tyHandle.isUnion
    /\ Len(tyHandle.types) = 3
    /\ Cardinality(KeptConstituents) = 2
    /\ getTypeString(tyHandle.types[2]) = Text.never

-----------------------------------------------------------------------------
(* Properties of inferTypeFromExpression. *)

\* the two operands a conditional or a || merges
IsMerge(node) ==
    \/ node.kind = "ConditionalExpression"
    \/ node.kind = "BinaryExpression" /\ node.op = "BarBarToken"

FirstOperand(node) ==
    IF node.kind = "ConditionalExpression" THEN node.kids[2] ELSE node.kids[1]
SecondOperand(node) ==
    IF node.kind = "ConditionalExpression" THEN node.kids[3] ELSE node.kids[2]

\* C5: for c ? a : b and a || b, when exactly one operand has an inferred
\* type other than "unknown" the result is that type alone, and when neither
\* has the result is "unknown".
C5_OneSidedMerge ==
    (inPc = "done" /\ IsMerge(exprNode)) =>
        LET first == inferTypeFromExpression(FirstOperand(exprNode))
            second == inferTypeFromExpression(SecondOperand(exprNode))
        IN  /\ (first # Text.unknown /\ second = Text.unknown) => inferred = first
            /\ (first = Text.unknown /\ second # Text.unknown) => inferred = second
            /\ (first = Text.unknown /\ second = Text.unknown) => inferred = Text.unknown

\* the positions of the elements that are neither omitted slots nor spreads
Contributing(node) ==
    {i \in 1..Len(node.kids) :
        node.kids[i].kind \notin {"OmittedExpression", "SpreadElement"}}

\* the distinct inferred types of those elements
DistinctTypes(node) ==
    {inferTypeFromExpression(node.kids[i]) : i \in Contributing(node)}

\* the position of the first element of the type
FirstAt(node, type) ==
    CHOOSE i \in Contributing(node) :
        /\ inferTypeFromExpression(node.kids[i]) = type
        /\ \A j \in Contributing(node) :
              inferTypeFromExpression(node.kids[j]) = type => i <= j

\* the sequences that hold every element of the set S once
Arrangements(S) ==
    {s \in [1..Cardinality(S) -> S] : \A i, j \in 1..Cardinality(S) : s[i] = s[j] => i = j}

C7_ArrayOfOneType ==
    (inPc = "done" /\ exprNode.kind = "ArrayLiteralExpression") =>
        /\ DistinctTypes(exprNode) = {} => inferred = Text.unknown \o Text.brackets
        /\ \A m \in {Text.string, Text.number, Text.boolean} :
              DistinctTypes(exprNode) = {m} => inferred = m \o Text.brackets

\* an array of a spread, an omitted slot and a number has been inferred
C7_Witness ==
    /\ inPc = "done"
    /\ exprNode.kind = "ArrayLiteralExpression"
    /\ \E i, j, k \in 1..Len(exprNode.kids) :
          /\ exprNode.kids[i].kind = "OmittedExpression"
          /\ exprNode.kids[j].kind = "SpreadElement"
          /\ exprNode.kids[k].kind = "NumericLiteral"
    /\ inferred = Text.number \o Text.brackets

-----------------------------------------------------------------------------
(* Properties of analyzeExports. *)

HasExportOnly(node) ==
    /\ node.kind \in DeclarationKinds
    /\ "ExportKeyword" \in node.modifiers
    /\ "DefaultKeyword" \notin node.modifiers

HasExportDefault(node) ==
    /\ node.kind \in DeclarationKinds
    /\ "ExportKeyword" \in node.modifiers
    /\ "DefaultKeyword" \in node.modifiers

\* a named-export construct: an export declaration with an export clause, or
\* a declaration with the export modifier and without the default one
IsNamedExportConstruct(node) ==
    \/ node.kind = "ExportDeclaration" /\ node.exportClause # <<>>
    \/ HasExportOnly(node)

\* a default-export construct: a declaration with both modifiers, or an
\* export assignment that is not export =
IsDefaultExportConstruct(node) ==
    \/ HasExportDefault(node)
    \/ node.kind = "ExportAssignment" /\ ~node.isExportEquals

InFile(Construct(_)) ==
    \E i \in 1..Len(PreOrder(sourceFile)) : Construct(PreOrder(sourceFile)[i])

\* C8: exportType is one of named, default, both, none: both iff a named and
\* a default construct were met, default iff only a default one, named iff
\* only a named one, none iff neither; hasDefaultExport iff default or both.
C8_ExportTypeTotal ==
    exPc = "done" =>
        LET named == InFile(IsNamedExportConstruct)
            default == InFile(IsDefaultExportConstruct)
            type == exportInfo.exportType
        IN  /\ type \in {"named", "default", "both", "none"}
            /\ type = "both" <=> (named /\ default)
            /\ type = "default" <=> (default /\ ~named)
            /\ type = "named" <=> (named /\ ~default)
            /\ type = "none" <=> (~named /\ ~default)
            /\ exportInfo.hasDefaultExport <=> type \in {"default", "both"}

\* a file with a named and a default construct has been classified
C8_Witness ==
    /\ exPc = "done"
    /\ InFile(IsNamedExportConstruct)
    /\ InFile(IsDefaultExportConstruct)
    /\ exportInfo.exportType = "both"

\* the names a construct contributes, in the claim's words
ContributedNames(node) ==
    IF node.kind = "ExportDeclaration"
    THEN IF node.exportClause # <<>> /\ node.exportClause[1].kind = "NamedExports"
         THEN [i \in 1..Len(node.exportClause[1].elements) |->
                  node.exportClause[1].elements[i].name]
         ELSE <<>>
    ELSE IF HasExportOnly(node) /\ node.kind = "VariableStatement"
    THEN LET named == SelectSeq(node.declarations, LAMBDA d : d.kind = "Identifier")
         IN  [k \in 1..Len(named) |-> named[k].text]
    ELSE IF HasExportOnly(node) /\ node.name # <<>> THEN node.name
    ELSE <<>>

\* the contributions of the nodes from position i on, in document order
RECURSIVE ContributionsFrom(_)
ContributionsFrom(i) ==
    IF i > Len(PreOrder(sourceFile)) THEN <<>>
    ELSE ContributedNames(PreOrder(sourceFile)[i]) \o ContributionsFrom(i + 1)

\* s is t with every later duplicate removed
IsFirstOccurrencesOf(s, t) ==
    /\ \A i, j \in 1..Len(s) : s[i] = s[j] => i = j
    /\ \A k \in 1..Len(t) : InSeq(t[k], s)
    /\ \A i, j \in 1..Len(s) :
          i < j => \E k \in 1..Len(t) :
                      /\ t[k] = s[i]
                      /\ \A l \in 1..Len(t) : t[l] = s[j] => k < l
    /\ \A i \in 1..Len(s) : InSeq(s[i], t)

\* C9: namedExports is the sequence of the names the named-export constructs
\* contribute, in document order, later duplicates removed: the name of an
\* exported non-default function, class, type alias or interface, every
\* simply-named declarator of an exported variable statement, and the name
\* after `as` of a renamed specifier, wherever the construct appears.
C9_NamedExportsInOrder ==
    exPc = "done" => IsFirstOccurrencesOf(exportInfo.namedExports, ContributionsFrom(1))

\* a file with a renamed specifier and a name contributed twice
C9_Witness ==
    /\ exPc = "done"
    /\ \E i \in 1..Len(sourceFile.kids) :
          /\ sourceFile.kids[i].kind = "ExportDeclaration"
          /\ sourceFile.kids[i].exportClause # <<>>
          /\ sourceFile.kids[i].exportClause[1].kind = "NamedExports"
    /\ Len(ContributionsFrom(1)) > Len(exportInfo.namedExports)
    /\ Len(exportInfo.namedExports) >= 2

\* C10: visiting a declaration with the export and the default modifier sets
\* hasDefaultExport, pushes no name and leaves the named flag alone; visiting
\* an export assignment sets hasDefaultExport iff it is not export =.
C10_DefaultExportRules ==
    [][(exPc = "visit" /\ toVisit # <<>>) =>
          /\ HasExportDefault(Head(toVisit)) =>
                /\ hasDefaultExport'
                /\ namedExports' = namedExports
                /\ hasNamedExports' = hasNamedExports
          /\ Head(toVisit).kind = "ExportAssignment" =>
                hasDefaultExport' = (hasDefaultExport \/ ~Head(toVisit).isExportEquals)]_vars

\* the node visit has just left
LastVisited == PreOrder(sourceFile)[Len(PreOrder(sourceFile)) - Len(toVisit)]

\* export = has been visited with no export met before it, and then a named
\* default declaration
C10_Witness ==
    /\ exPc = "visit"
    /\ Len(sourceFile.kids) = 2
    /\ toVisit = <<>>
    /\ sourceFile.kids[1].kind = "ExportAssignment" /\ sourceFile.kids[1].isExportEquals
    /\ HasExportDefault(LastVisited) /\ LastVisited.name # <<>>
    /\ hasDefaultExport /\ ~hasNamedExports /\ namedExports = <<>>

-----------------------------------------------------------------------------
(* Properties of findNodes and findFirstNode. *)

\* the nodes of the tree that satisfy the predicate, in document order
Matches == SelectSeq(PreOrder(fnRoot), LAMBDA node : Predicate(fnPredicate, node))

\* the position in document order of the first node that satisfies the
\* predicate, 0 if there is none
FirstMatchAt ==
    LET order == PreOrder(fnRoot)
        at == {i \in 1..Len(order) : Predicate(fnPredicate, order[i])}
    IN  IF at = {} THEN 0 ELSE CHOOSE i \in at : \A j \in at : i <= j

\* C11: findFirstNode returns the first element of what findNodes returns,
\* which is the first match in pre-order, and returns null exactly when
\* findNodes returns the empty list.
C11_FindFirstIsHeadOfFindNodes ==
    fnPc = "done" =>
        /\ results = Matches
        /\ (result = <<>>) <=> (results = <<>>)
        /\ results # <<>> => result = <<results[1]>>

\* both functions have returned on a tree with several matches, the first of
\* them an inner node with children
C11_Witness ==
    /\ fnPc = "done"
    /\ Len(results) >= 2
    /\ result # <<>>
    /\ result[1] # fnRoot
    /\ result[1].kids # <<>>

\* C12: the predicate is invoked on the nodes in document order and never
\* again once it has returned true: at most as many times as the position of
\* the first match, and only its last invocation can have returned true.
C12_FindFirstShortCircuits ==
    fnPc \in {"findFirstNode", "done"} =>
        /\ Len(predicateCalls) <= Len(PreOrder(fnRoot))
        /\ \A i \in 1..Len(predicateCalls) : predicateCalls[i] = PreOrder(fnRoot)[i]
        /\ \A i \in 1..(Len(predicateCalls) - 1) :
               ~Predicate(fnPredicate, predicateCalls[i])
        /\ FirstMatchAt > 0 => Len(predicateCalls) <= FirstMatchAt
        /\ (fnPc = "done" /\ FirstMatchAt > 0) => Len(predicateCalls) = FirstMatchAt

\* the first match has children and later siblings, and the traversal has
\* gone past all of them
C12_Witness ==
    /\ fnPc = "done"
    /\ FirstMatchAt > 1
    /\ FirstMatchAt + 1 < Len(PreOrder(fnRoot))
    /\ PreOrder(fnRoot)[FirstMatchAt].kids # <<>>
    /\ Len(predicateCalls) = FirstMatchAt

-----------------------------------------------------------------------------
(* Properties of parseGeneratedInterfaces and getPropertyName. *)

\* one entry per contributing member of the interface, in member order
RECURSIVE InvocationsFor(_, _)
InvocationsFor(interfaceName, members) ==
    IF members = <<>> THEN <<>>
    ELSE (IF MemberContributes(Head(members))
          THEN <<[handler |-> interfaceName,
                  propName |-> MemberPropName(Head(members))[1],
                  member |-> Head(members)]>>
          ELSE <<>>)
         \o InvocationsFor(interfaceName, Tail(members))

\* the invocations the interfaces with a registered handler call for, over
\* the nodes in document order
RECURSIVE InvocationsOver(_)
InvocationsOver(nodes) ==
    IF nodes = <<>> THEN <<>>
    ELSE (IF Head(nodes).kind = "InterfaceDeclaration"
             /\ Head(nodes).text \in DOMAIN handlers
          THEN InvocationsFor(Head(nodes).text, Head(nodes).kids)
          ELSE <<>>)
         \o InvocationsOver(Tail(nodes))

NoRegisteredHandlerThrows == \A name \in DOMAIN handlers : ~HandlerThrows(handlers[name])

\* C13: when no registered handler throws, the handlers are invoked exactly
\* once per contributing member of every interface whose name is registered,
\* in document order, nothing else is invoked, and the accumulator returned
\* is the one every invocation was given (here: it holds what they pushed).
C13_OneInvocationPerContributingMember ==
    (pgPc = "done" /\ NoRegisteredHandlerThrows) =>
        /\ invocations = InvocationsOver(PreOrder(pgFile))
        /\ pgResults = [i \in 1..Len(invocations) |-> invocations[i].propName]
        /\ warnings = 0

\* whether the last invocation logged is one that threw
LastInvocationThrew ==
    /\ invocations # <<>>
    /\ HandlerThrows(HandlerLookup(handlers, invocations[Len(invocations)].handler))

\* the names pushed by the first n invocations: those of a pushing handler
PushedBy(n) ==
    LET pushing == SelectSeq(SubSeq(invocations, 1, n),
                       LAMBDA call : HandlerLookup(handlers, call.handler) = "push")
    IN  [i \in 1..Len(pushing) |-> pushing[i].propName]

\* C14: no exception reaches the caller; when an invocation throws, one
\* warning is logged, it is the last invocation, and the accumulator
\* returned holds what the invocations before it had pushed.
C14_NoExceptionReachesCaller ==
    /\ pgPc # "TypeError"
    /\ (pgPc = "done" /\ LastInvocationThrew) =>
           /\ warnings = 1
           /\ pgResults = PushedBy(Len(invocations) - 1)

\* the template literal type a member's name is made from, if any
TemplateOf(member) ==
    IF /\ member.kind = "IndexSignature"
       /\ member.parameters # <<>>
       /\ member.parameters[1].type # <<>>
       /\ member.parameters[1].type[1].kind = "TemplateLiteralType"
    THEN <<member.parameters[1].type[1]>>
    ELSE IF /\ member.kind = "PropertySignature"
            /\ member.name.kind = "ComputedPropertyName"
            /\ member.name.expression.kind = "TemplateLiteralType"
         THEN <<member.name.expression>>
         ELSE <<>>

\* placeholder and literal text of the spans from the i-th on, concatenated
RECURSIVE SpansFrom(_, _)
SpansFrom(templateSpans, i) ==
    IF i > Len(templateSpans) THEN <<>>
    ELSE <<36, 123, 115, 116, 114, 105, 110, 103, 125>>
         \o templateSpans[i].literal[1] \o SpansFrom(templateSpans, i + 1)

\* the number of places of s where sub starts
Occurrences(s, sub) ==
    Cardinality({i \in 1..Len(s) :
        i + Len(sub) - 1 <= Len(s) /\ SubSeq(s, i, i + Len(sub) - 1) = sub})

IsPatternOf(propName, template) ==
    /\ propName = template.head[1] \o SpansFrom(template.templateSpans, 1)
    /\ Occurrences(propName, <<36, 123, 115, 116, 114, 105, 110, 103, 125>>)
           = Len(template.templateSpans)
    /\ template.head[1] = <<>> =>
           SubSeq(propName, 1, 9) = <<36, 123, 115, 116, 114, 105, 110, 103, 125>>

\* C15: the name made from a template literal type, in an index signature
\* or in a computed name, is the head text followed for each span in order by
\* ${string} and the span's literal text: as many placeholders as spans, the
\* placeholder first when the head is empty.
C15_TemplatePattern ==
    /\ \A i \in 1..Len(invocations) :
           TemplateOf(invocations[i].member) # <<>> =>
               IsPatternOf(invocations[i].propName, TemplateOf(invocations[i].member)[1])
    /\ \A node \in {PreOrder(pgFile)[i] : i \in 1..Len(PreOrder(pgFile))} :
           (node.kind = "PropertySignature" /\ TemplateOf(node) # <<>>) =>
               /\ getPropertyName(node.name) # <<>>
               /\ IsPatternOf(getPropertyName(node.name)[1], TemplateOf(node)[1])

\* the handler has been given the name of an index signature whose template
\* has an empty head, two spans and a literal between them
C15_Witness ==
    /\ pgPc = "done"
    /\ \E i \in 1..Len(invocations) :
           LET template == TemplateOf(invocations[i].member)
           IN  /\ invocations[i].member.kind = "IndexSignature"
               /\ template # <<>>
               /\ template[1].head = <<<<>>>>
               /\ Len(template[1].templateSpans) = 2
               /\ template[1].templateSpans[1].literal # <<<<>>>>
               /\ pgResults = <<invocations[i].propName>>

-----------------------------------------------------------------------------
(* Properties of extractReturnTypeFromPromise. *)

\* a reference literally named Promise with exactly one type argument
IsPromiseOfOne(node) ==
    /\ node.kind = "TypeReference"
    /\ node.text = <<80, 114, 111, 109, 105, 115, 101>>
    /\ Len(node.kids) = 1

\* C17: extractReturnTypeFromPromise hands parseObjectType the type argument
\* when the type node is a reference named Promise with exactly one type
\* argument, and the type node itself in every other case.
C17_UnwrapsPromiseOfOne ==
    [][(poPc = "unwrap" /\ poPc' = "call") =>
          poNode' = (IF IsPromiseOfOne(poNode) THEN poNode.kids[1] ELSE poNode)]_vars

-----------------------------------------------------------------------------
(* Properties of resolveTypeAlias. *)

\* the positions in document order of the aliases with the requested name
AliasesAt ==
    {i \in 1..Len(PreOrder(callArgs[2])) :
        /\ PreOrder(callArgs[2])[i].kind = "TypeAliasDeclaration"
        /\ PreOrder(callArgs[2])[i].text = callArgs[1]}

\* C16: resolveTypeAlias returns the type of the first alias of the name in
\* document order, nested ones included, and null when there is none,
\* whatever interfaces of that name the file declares.
C16_FirstAliasInDocumentOrder ==
    (callPc = "done" /\ callee = "resolveTypeAlias") =>
        IF AliasesAt = {} THEN callResult = <<>>
        ELSE LET first == CHOOSE i \in AliasesAt : \A j \in AliasesAt : i <= j
             IN  callResult = <<PreOrder(callArgs[2])[first].kids[1]>>

\* the file declares two aliases of the name with different types, and the
\* call has returned
C16_Witness ==
    /\ callPc = "done"
    /\ callee = "resolveTypeAlias"
    /\ \E i, j \in AliasesAt :
           /\ i < j
           /\ PreOrder(callArgs[2])[i].kids[1] # PreOrder(callArgs[2])[j].kids[1]
           /\ callResult = <<PreOrder(callArgs[2])[i].kids[1]>>

-----------------------------------------------------------------------------
(* Properties of extractPropertiesFromObjectLiteral. *)

\* a property assignment with an identifier or string-literal key, or a
\* shorthand property
IsKeyedProperty(prop) ==
    \/ prop.kind = "PropertyAssignment" /\ prop.name.kind \in {"Identifier", "StringLiteral"}
    \/ prop.kind = "ShorthandPropertyAssignment"

DeclaredKey(prop) ==
    IF prop.kind = "PropertyAssignment" THEN prop.name.text ELSE prop.text

DeclaredType(prop) ==
    IF prop.kind = "PropertyAssignment" THEN inferTypeFromExpression(prop.kids[1])
    ELSE inferTypeFromExpression(Identifier(prop.text))

\* C18: the keys of the map returned are, in declaration order, the keys of
\* the property assignments with identifier or string-literal keys and of the
\* shorthand properties, each mapped to the type inferred from its
\* initializer (from its name for a shorthand property; from the last
\* initializer when a key is declared twice); nothing else is a key.
C18_PropertiesInDeclarationOrder ==
    (callPc = "done" /\ callee = "extractPropertiesFromObjectLiteral") =>
        LET props == SelectSeq(callArgs[1].kids, IsKeyedProperty)
            keys == [i \in 1..Len(props) |-> DeclaredKey(props[i])]
        IN  /\ [i \in 1..Len(callResult) |-> callResult[i][1]] = Dedupe(keys)
            /\ \A i \in 1..Len(callResult) :
                   \E j \in 1..Len(props) :
                       /\ keys[j] = callResult[i][1]
                       /\ \A k \in (j + 1)..Len(props) : keys[k] # keys[j]
                       /\ callResult[i][2] = DeclaredType(props[j])

-----------------------------------------------------------------------------
(* Properties of inferTypeFromExpression on identifiers and new expressions. *)

\* sub occurs in s, case-sensitively
Contains(s, sub) ==
    \E i \in 1..(Len(s) - Len(sub) + 1) : SubSeq(s, i, i + Len(sub) - 1) = sub

\* C19: an identifier other than undefined infers to "string | null |
\* undefined" when its name contains Id, Name or Key, else to "boolean" when
\* it contains enabled, is or has, else to "unknown".
C19_IdentifierHeuristics ==
    (inPc = "done" /\ exprNode.kind = "Identifier" /\ exprNode.text # Text.undefined) =>
        inferred =
            (IF \E sub \in {Text.Id, Text.Name, Text.Key} : Contains(exprNode.text, sub)
             THEN Text.string \o Text.bar \o Text.null \o Text.bar \o Text.undefined
             ELSE IF \E sub \in {Text.enabled, Text.is, Text.has} : Contains(exprNode.text, sub)
             THEN Text.boolean
             ELSE Text.unknown)

\* the type of an identifier that matches both groups, such as isKey or
\* hasName, has been inferred
C19_Witness ==
    /\ inPc = "done"
    /\ exprNode.kind = "Identifier"
    /\ \E sub \in {Text.Id, Text.Name, Text.Key} : Contains(exprNode.text, sub)
    /\ \E sub \in {Text.enabled, Text.is, Text.has} : Contains(exprNode.text, sub)
    /\ inferred = Text.string \o Text.bar \o Text.null \o Text.bar \o Text.undefined

\* C20: a new expression infers to "Date" when it is new Date(...), and to
\* "object" otherwise, whatever the form of the constructor expression.
C20_NewExpressionIsObject ==
    (inPc = "done" /\ exprNode.kind = "NewExpression") =>
        inferred =
            (IF exprNode.kids[1].kind = "Identifier" /\ exprNode.kids[1].text = Text.Date
             THEN Text.Date ELSE Text.object)

-----------------------------------------------------------------------------
(* Properties of the two renderings of an object with nothing to render. *)

\* a member of a type literal with no simple name or no type annotation
IsSkippedMember(member) ==
    \/ member.kind # "PropertySignature"
    \/ member.name.kind \notin {"Identifier", "StringLiteral"}
    \/ member.kids = <<>>

\* a computed-key or numeric-key assignment, or a method
IsSkippedProperty(prop) ==
    \/ prop.kind = "PropertyAssignment"
          /\ prop.name.kind \in {"ComputedPropertyName", "NumericLiteral"}
    \/ prop.kind = "MethodDeclaration"

\* C21: a type literal whose members are all skipped serializes to "{  }"
\* (two spaces), and an object literal whose properties are all computed-key,
\* numeric-key or method entries infers to "{}"; the two strings differ.
C21_EmptyObjectRenderings ==
    /\ (callPc = "done" /\ callee = "serializeTypeNode"
           /\ \A i \in 1..Len(callArgs[1].kids) : IsSkippedMember(callArgs[1].kids[i]))
         => callResult = <<123, 32, 32, 125>>
    /\ (callPc = "done" /\ callee = "inferTypeFromExpression"
           /\ \A i \in 1..Len(callArgs[1].kids) : IsSkippedProperty(callArgs[1].kids[i]))
         => callResult = <<123, 125>>

\* an object literal holding nothing but a computed key and a method has
\* been inferred
C21_Witness ==
    /\ callPc = "done"
    /\ callee = "inferTypeFromExpression"
    /\ Len(callArgs[1].kids) = 2
    /\ callArgs[1].kids[1].kind = "PropertyAssignment"
    /\ callArgs[1].kids[1].name.kind = "ComputedPropertyName"
    /\ callArgs[1].kids[2].kind = "MethodDeclaration"
    /\ callResult = <<123, 125>>

-----------------------------------------------------------------------------
(* Properties of getObjectProperties. *)

\* a property assignment whose key is an identifier, a string literal or a
\* computed name
IsDescribed(prop) ==
    /\ prop.kind = "PropertyAssignment"
    /\ prop.name.kind \in {"Identifier", "StringLiteral", "ComputedPropertyName"}

\* the source text of the expression of a computed key
SourceText(expression) ==
    IF expression.kind = "StringLiteral" THEN <<34>> \o expression.text \o <<34>>
    ELSE expression.text

\* C22: getObjectProperties returns, in source order, one descriptor for
\* each property assignment with an identifier, string-literal or computed key
\* and none for any other slot; key is the key text (the source text of the
\* expression of a computed key, isComputed true; otherwise isComputed false),
\* valueNode the initializer, value the literal array of an array initializer,
\* the placeholder object of an object initializer and the literal value
\* otherwise.
C22_ObjectPropertyDescriptors ==
    (callPc = "done" /\ callee = "getObjectProperties") =>
        LET props == SelectSeq(callArgs[1].kids, IsDescribed)
        IN  /\ Len(callResult) = Len(props)
            /\ \A i \in 1..Len(props) :
                   LET prop == props[i]
                       info == callResult[i]
                       initializer == prop.kids[1]
                   IN  /\ info.isComputed = (prop.name.kind = "ComputedPropertyName")
                       /\ info.key = (IF prop.name.kind = "ComputedPropertyName"
                                      THEN SourceText(prop.name.expression)
                                      ELSE prop.name.text)
                       /\ info.valueNode = initializer
                       /\ info.value =
                            (IF initializer.kind = "ArrayLiteralExpression"
                                 THEN Value("array", getArrayLiteralValues(initializer))
                             ELSE IF initializer.kind = "ObjectLiteralExpression"
                                 THEN Value("object", <<>>)
                             ELSE getLiteralValue(initializer))

\* { ["a"]: 1, a: [1, x, null] } has been described: the computed key keeps
\* its quotes
C22_Witness ==
    /\ callPc = "done"
    /\ callee = "getObjectProperties"
    /\ Len(callResult) = 2
    /\ callResult[1].isComputed
    /\ callResult[1].key = <<34, 97, 34>>
    /\ callResult[2].value.type = "array"
    /\ Len(callResult[2].value.value) = 2

-----------------------------------------------------------------------------
(* Properties of hasObjectProperty. *)

\* C23: hasObjectProperty(node, name) is true exactly when the object
\* literal has a property assignment named name, whatever the shape of its
\* value (an array, an object literal, an identifier, ...).
C23_PresenceWhateverTheValue ==
    (callPc = "done" /\ callee = "hasObjectProperty") =>
        callResult.value[1] =
            (\E i \in 1..Len(callArgs[1].kids) :
                 /\ callArgs[1].kids[i].kind = "PropertyAssignment"
                 /\ callArgs[1].kids[i].name.kind = "Identifier"
                 /\ callArgs[1].kids[i].name.text = callArgs[2])

-----------------------------------------------------------------------------
(* Properties of getLiteralValue and getArrayLiteralValues. *)

\* the node kinds getLiteralValue extracts a value from
LiteralKinds ==
    {"StringLiteral", "NoSubstitutionTemplateLiteral", "NumericLiteral", "TrueKeyword",
     "FalseKeyword", "NullKeyword", "UndefinedKeyword"}

\* C24: getLiteralValue gives an undefined-keyword node a value other than
\* the one it gives a node that is no literal; and getArrayLiteralValues
\* returns, in element order, the value of every literal element (null and
\* undefined entries included), dropping the elements that are no literals.
C24_UndefinedIsNotAbsent ==
    /\ (callPc = "done" /\ callee = "getLiteralValue"
           /\ callArgs[1].kind = "UndefinedKeyword")
         => callResult # getLiteralValue(Identifier(Names.x))
    /\ (callPc = "done" /\ callee = "getArrayLiteralValues"
           /\ callArgs[1].kind = "ArrayLiteralExpression")
         => LET literals == SelectSeq(callArgs[1].kids,
                                      LAMBDA element : element.kind \in LiteralKinds)
            IN  callResult = [i \in 1..Len(literals) |-> getLiteralValue(literals[i])]

-----------------------------------------------------------------------------
(* Properties of areRecordsEqual. *)

\* the entries of a record, whatever their order
EntriesOf(record) == {record[i] : i \in 1..Len(record)}

\* C25: areRecordsEqual(a, b) is true exactly when a and b have the same
\* keys and the same value for every key, whatever the insertion order; so
\* it is true of every record and itself, one with an empty-string key
\* included.
C25_StructuralEquality ==
    (callPc = "done" /\ callee = "areRecordsEqual") =>
        callResult.value[1] = (EntriesOf(callArgs[1]) = EntriesOf(callArgs[2]))

-----------------------------------------------------------------------------
(* Properties of isValidIdentifier and formatPropertyKey. *)

\* an ASCII letter, _ or $
IsLetterLike(c) == c \in (97..122) \cup (65..90) \cup {95, 36}

\* k is non-empty, starts with a letter, _ or $ and goes on with letters,
\* digits, _ or $
IsIdentifierShaped(k) ==
    /\ k # <<>>
    /\ IsLetterLike(Head(k))
    /\ \A i \in 1..Len(Tail(k)) : IsLetterLike(Tail(k)[i]) \/ Tail(k)[i] \in 48..57

\* C26: isValidIdentifier(k) is true exactly when k is non-empty, starts with
\* a letter, _ or $ and continues with letters, digits, _ or $ only;
\* formatPropertyKey(k) is k when that is so and k between double quotes when
\* it is not.
C26_IdentifierAndKeyFormat ==
    /\ (callPc = "done" /\ callee = "isValidIdentifier")
         => callResult.value[1] = IsIdentifierShaped(callArgs[1])
    /\ (callPc = "done" /\ callee = "formatPropertyKey")
         => callResult = (IF IsIdentifierShaped(callArgs[1]) THEN callArgs[1]
                          ELSE <<34>> \o callArgs[1] \o <<34>>)

\* a key that starts with a digit has been put between quotes
C26_Witness ==
    /\ callPc = "done"
    /\ callee = "formatPropertyKey"
    /\ Len(callArgs[1]) > 1
    /\ callArgs[1][1] = 49
    /\ callArgs[1][2] = 97
    /\ callResult = <<34>> \o callArgs[1] \o <<34>>

-----------------------------------------------------------------------------
(* inferTypeFromExpression always returns a type string. *)

-----------------------------------------------------------------------------
(* Properties of extractFunctionCalls. *)

\* the places in the walk of the calls whose callee is a bare identifier
\* listed in functionNames
ListedCalls ==
    LET nodes == PreOrder(callArgs[1])
    IN  {i \in 1..Len(nodes) :
            /\ nodes[i].kind = "CallExpression"
            /\ nodes[i].kids[1].kind = "Identifier"
            /\ \E j \in 1..Len(callArgs[2]) : callArgs[2][j] = nodes[i].kids[1].text}

\* those of them that are the direct expression of an export assignment
\* other than export =
ExportedCalls ==
    LET nodes == PreOrder(callArgs[1])
    IN  {i \in ListedCalls :
            /\ i > 1
            /\ nodes[i - 1].kind = "ExportAssignment"
            /\ ~nodes[i - 1].isExportEquals}

\* the nodes of the records of calls with the flag, in order
NodesWith(calls, isExported) ==
    LET kept == SelectSeq(calls, LAMBDA call : call.isExported = isExported)
    IN  [k \in 1..Len(kept) |-> kept[k].node]

\* s lists the set in ascending order, each member once
IsAscendingListOf(s, set) ==
    /\ Len(s) = Cardinality(set)
    /\ {s[k] : k \in 1..Len(s)} = set
    /\ \A k \in 1..(Len(s) - 1) : s[k] < s[k + 1]

\* C28: extractFunctionCalls returns, in document order, one record with
\* isExported false for every call whose callee is a bare identifier listed
\* in functionNames, and one more with isExported true, just before it and
\* for the same node, exactly when the call is the direct expression of an
\* export assignment other than export =; each record is named after the
\* callee.
C28_CallRecordsInDocumentOrder ==
    (callPc = "done" /\ callee = "extractFunctionCalls") =>
        /\ IsAscendingListOf(NodesWith(callResult, FALSE), ListedCalls)
        /\ IsAscendingListOf(NodesWith(callResult, TRUE), ExportedCalls)
        /\ \A k \in 1..Len(callResult) :
               /\ callResult[k].name = PreOrder(callArgs[1])[callResult[k].node].kids[1].text
               /\ callResult[k].isExported =>
                      /\ k < Len(callResult)
                      /\ ~callResult[k + 1].isExported
                      /\ callResult[k + 1].node = callResult[k].node

\* export default f() after another listed call: three records, the last
\* two for the same node
C28_Witness ==
    /\ callPc = "done"
    /\ callee = "extractFunctionCalls"
    /\ Len(callResult) = 3
    /\ ~callResult[1].isExported
    /\ callResult[2].isExported
    /\ ~callResult[3].isExported
    /\ callResult[2].node = callResult[3].node

-----------------------------------------------------------------------------
(* getBooleanPropertyValue and getObjectPropertyValue. *)

\* C29: whenever getBooleanPropertyValue(node, name) returns a boolean,
\* getObjectPropertyValue(node, name) returns the same boolean, also when
\* the literal has several property assignments of the name and the first
\* is not a boolean keyword.
C29_BooleanAgreesWithValue ==
    (callPc = "done" /\ callee = "getBooleanPropertyValue"
       /\ callResult.type = "boolean")
     => getObjectPropertyValue(callArgs[1], callArgs[2]) = callResult

-----------------------------------------------------------------------------
(* analyzeExports accumulates. *)

\* the locals of analyzeExports once visit has been through the nodes
RECURSIVE Walked(_, _)
Walked(nodes, acc) ==
    IF nodes = <<>> THEN acc ELSE Walked(Tail(nodes), VisitNode(Head(nodes), acc))

\* what analyzeExports returns for the file, the names as a set
Summary(file) ==
    LET acc == Walked(PreOrder(file),
                      [hasNamedExports |-> FALSE, hasDefaultExport |-> FALSE,
                       namedExports |-> <<>>])
        names == Dedupe(acc.namedExports)
    IN  [exportType |-> ExportTypeOf(acc.hasNamedExports, acc.hasDefaultExport),
         hasDefaultExport |-> acc.hasDefaultExport,
         names |-> {names[i] : i \in 1..Len(names)}]

\* C30: during the walk the named flag and the default flag are only ever
\* set and the list of names only grows; so exportType, hasDefaultExport and
\* the set of namedExports are the same for every reordering of the
\* statements of the file, and a non-empty namedExports comes with the
\* exportType named or both.
C30_ExportsAccumulate ==
    /\ [][/\ hasNamedExports => hasNamedExports'
          /\ hasDefaultExport => hasDefaultExport'
          /\ Len(namedExports) <= Len(namedExports')
          /\ SubSeq(namedExports', 1, Len(namedExports)) = namedExports]_vars
    /\ [](exPc = "done" =>
            /\ \A stmts \in Rearrangements(sourceFile.kids) :
                   Summary(Node("SourceFile", <<>>, stmts)) =
                       [exportType |-> exportInfo.exportType,
                        hasDefaultExport |-> exportInfo.hasDefaultExport,
                        names |-> {exportInfo.namedExports[i] :
                                      i \in 1..Len(exportInfo.namedExports)}]
            /\ exportInfo.namedExports # <<>> =>
                   exportInfo.exportType \in {"named", "both"})

\* a file with export default before a named export has been analysed
C30_Witness ==
    /\ exPc = "done"
    /\ Len(sourceFile.kids) = 2
    /\ sourceFile.kids[1].kind = "ExportAssignment"
    /\ ~sourceFile.kids[1].isExportEquals
    /\ exportInfo.exportType = "both"
    /\ exportInfo.namedExports # <<>>

====
